---- MODULE Spec2Model ----
(***************************************************************************)
(* claude-proxy-rs: the per-key quota engine (five-hour / weekly / total   *)
(* cost windows over the request_log ledger), the client-key store and the *)
(* request authorization pipeline.                                          *)
(***************************************************************************)
EXTENDS Integers, Sequences, FiniteSets, TLC

VARIABLES
    now,            \* the wall clock, timestamp_millis()
    client_keys,    \* table client_keys: id -> row
    request_log,    \* table request_log: sequence of rows in insertion order
    last,           \* the last completed operation, its inputs and its result
    ticks,          \* how many times the clock has advanced
    reset_keys,     \* history: the keys reset_usage has been called on
    key_allowed_models, \* table key_allowed_models: set of <<key_id, model>>
    key_model_limits,   \* table key_model_limits: set of rows
    issued,         \* history: the key ids create() has generated
    req,            \* the inbound request being served, and how far it got
    served,         \* how many inbound requests have been accepted
    state_window_resets, \* AppState.window_resets: the cached SubscriptionState
    fetched,        \* the last answer of the upstream usage endpoint
    verifier,       \* OAuthManager.verifier: the PKCE verifier of a pending flow
    auth_store,     \* table auth: the credential stored for "anthropic"
    oauth_last,     \* the last OAuthManager call, the upstream's answer, its result
    stream,         \* the SSE transformer task of the streamed request
    db,             \* the SQLite file: tables, row counts, schema_version
    boot,           \* the start-up process: where init_db stands
    mig_log,        \* history: what run_migrations did, over all start-ups
    xf,             \* the request transformation in progress, and its results
    scan,           \* the last table scan of validate, and what it compared
    tasks           \* the handler tasks running concurrently, and their locals

vars == <<now, client_keys, request_log, last, ticks, reset_keys,
          key_allowed_models, key_model_limits, issued, req, served,
          state_window_resets, fetched, verifier, auth_store, oauth_last,
          stream, db, boot, mig_log, xf, scan, tasks>>
(* The variables the quota engine never touches *)
auth_vars == <<key_allowed_models, key_model_limits, issued, req, served>>
(* The subscription-state cache and what the upstream last answered *)
sub_vars == <<state_window_resets, fetched>>
(* The OAuth manager and the credential store *)
oauth_vars == <<verifier, auth_store, oauth_last>>
(* The variables neither the quota engine nor the key store touches *)
(* The SSE transformer *)
stream_vars == <<stream>>
(* The database file and the start-up process *)
mig_vars == <<db, boot, mig_log>>
(* The transformers, the scan of validate and the concurrent tasks *)
late_vars == <<xf, scan, tasks>>
ext_vars == <<sub_vars, oauth_vars, stream_vars, mig_vars, late_vars>>
ext_but_sub == <<oauth_vars, stream_vars, mig_vars, late_vars>>
ext_but_oauth == <<sub_vars, stream_vars, mig_vars, late_vars>>
ext_but_sub_stream == <<oauth_vars, mig_vars, late_vars>>
ext_but_mig == <<sub_vars, oauth_vars, stream_vars, late_vars>>
ext_but_late == <<sub_vars, oauth_vars, stream_vars, mig_vars>>

----------------------------------------------------------------------------
(* Bounds of the model *)

MaxTicks == 2
MaxLog == 1
MaxRequests == 2
(* The clock reading when the model starts (any time after the epoch) *)
StartTime == 10

(* Option<u64>: None is the empty tuple, Some(x) the one-element tuple *)
None == <<>>
Some(x) == <<x>>
IsSome(o) == o # None
Unwrap(o) == o[1]

(* SubscriptionState::default() *)
DefaultSubscriptionState ==
    [five_hour_reset_at |-> None, seven_day_reset_at |-> None,
     five_hour_utilization |-> None, seven_day_utilization |-> None]

(* No OAuthManager call has been made *)
NoOAuthOp == [op |-> "", response |-> None, contacted |-> FALSE, res |-> ""]

(* Usage::default() *)
UsageDefault ==
    [input_tokens |-> 0, output_tokens |-> 0,
     cache_read_input_tokens |-> None, cache_creation_input_tokens |-> None]

(* No request is being streamed *)
IdleStream ==
    [pc |-> "none", key_id |-> "", model |-> "", script |-> <<>>,
     seen |-> <<>>, usage_report |-> UsageDefault, upstream_failed |-> FALSE,
     dropped |-> FALSE, attempts |-> 0, log_len |-> 0]

----------------------------------------------------------------------------
(* db.rs: the database file and its migration ladder                         *)

(* How many times the binary is started, and how many client keys are kept *)
MaxStartups == 2
MaxKeyRows == 1

(* constants.rs: SEED_MODELS.len() *)
SeedModelCount == 14


(* A database file: its tables (name -> columns), how many rows each holds, *)
(* and the rows of table schema_version                                      *)
EmptyDb ==
    [tables |-> [t \in {} |-> {}], rows |-> [t \in {} |-> 0],
     schema_version |-> <<>>]

Restrict(f, S) == [x \in S |-> f[x]]

(* CREATE TABLE IF NOT EXISTS t (cols) *)
CreateTableIfNotExists(d, t, cols) ==
    IF t \in DOMAIN d.tables
    THEN d
    ELSE [d EXCEPT !.tables = (t :> cols) @@ @, !.rows = (t :> 0) @@ @]

(* DROP TABLE IF EXISTS t *)
DropTableIfExists(d, t) ==
    [d EXCEPT !.tables = Restrict(@, DOMAIN @ \ {t}),
              !.rows = Restrict(@, DOMAIN @ \ {t})]

(* ALTER TABLE old RENAME TO new *)
RenameTable(d, old, new) ==
    [d EXCEPT !.tables = (new :> @[old]) @@ Restrict(@, DOMAIN @ \ {old}),
              !.rows = (new :> @[old]) @@ Restrict(@, DOMAIN @ \ {old})]

(* INSERT INTO target SELECT selected FROM source: every row is copied *)
CopyRows(d, source, target) ==
    [d EXCEPT !.rows[target] = @ + d.rows[source]]

Ok(d) == [ok |-> TRUE, db |-> d]
Failed(d) == [ok |-> FALSE, db |-> d]

get_schema_version(d) ==
    IF d.schema_version = <<>> THEN 0 ELSE d.schema_version[1]

(* DELETE FROM schema_version, then INSERT the version *)
set_schema_version(d, version) ==
    [d EXCEPT !.schema_version = <<version>>]

table_exists(d, table) == table \in DOMAIN d.tables

seed_models_if_empty(d) ==
    IF d.rows["models"] > 0
    THEN d
    ELSE [d EXCEPT !.rows["models"] = SeedModelCount]

migrate_v1(d) ==
    LET d1 == CreateTableIfNotExists(d, "auth",
                  {"provider", "auth_type", "access_token",
                   "refresh_token", "expires_at", "account_id",
                   "enterprise_url"})
    IN  Ok(CreateTableIfNotExists(d1, "client_keys",
                  {"id", "key", "name", "enabled", "created_at",
                   "last_used_at", "hourly_limit", "weekly_limit",
                   "total_limit", "hourly_usage", "weekly_usage",
                   "total_usage", "hourly_reset_at", "weekly_reset_at"}))

migrate_v2(d) ==
    LET d1 == CreateTableIfNotExists(d, "models",
                  {"id", "sort_order", "enabled", "input_price",
                   "output_price", "cache_read_price", "cache_write_price"})
        d2 == seed_models_if_empty(d1)
        d3 == CreateTableIfNotExists(d2, "key_allowed_models",
                  {"key_id", "model"})
        d4 == DropTableIfExists(d3, "key_model_usage")
    IN  Ok(CreateTableIfNotExists(d4, "key_model_usage",
                  {"key_id", "model", "hourly_limit", "weekly_limit",
                   "total_limit", "hourly_input", "hourly_output",
                   "hourly_cache_read", "hourly_cache_write",
                   "weekly_input", "weekly_output", "weekly_cache_read",
                   "weekly_cache_write", "total_input", "total_output",
                   "total_cache_read", "total_cache_write",
                   "hourly_reset_at", "weekly_reset_at"}))

migrate_v3(d) ==
    Ok(CreateTableIfNotExists(d, "admin_sessions", {"token", "expires_at"}))

(* ALTER TABLE client_keys ADD COLUMN allow_extra_usage *)
migrate_v4(d) ==
    IF /\ table_exists(d, "client_keys")
       /\ "allow_extra_usage" \notin d.tables["client_keys"]
    THEN Ok([d EXCEPT !.tables["client_keys"] = @ \cup {"allow_extra_usage"}])
    ELSE Failed(d)

(* Recreate table t with the columns cols, copying its rows; the statements *)
(* run one by one, outside a transaction                                     *)
RecreateTable(d, t, cols, selected) ==
    LET new == IF t = "client_keys" THEN "client_keys_new"
                                    ELSE "key_model_usage_new"
        d1 == [d EXCEPT !.tables = (new :> cols) @@ @,
                        !.rows = (new :> 0) @@ @]
    IN  IF table_exists(d, new)
        THEN Failed(d)
        ELSE IF ~ table_exists(d, t) \/ ~ (selected \subseteq d.tables[t])
        THEN Failed(d1)
        ELSE Ok(RenameTable(DropTableIfExists(CopyRows(d1, t, new), t),
                            new, t))

migrate_v5(d) ==
    LET r1 == RecreateTable(d, "client_keys",
                  {"id", "key", "name", "enabled", "created_at",
                   "last_used_at", "five_hour_limit", "weekly_limit",
                   "total_limit", "five_hour_reset_at", "weekly_reset_at",
                   "allow_extra_usage"},
                  {"id", "key", "name", "enabled", "created_at",
                   "last_used_at", "hourly_limit", "weekly_limit",
                   "total_limit", "hourly_reset_at", "weekly_reset_at",
                   "allow_extra_usage"})
    IN  IF ~ r1.ok
        THEN r1
        ELSE RecreateTable(r1.db, "key_model_usage",
                  {"key_id", "model", "five_hour_limit", "weekly_limit",
                   "total_limit", "five_hour_input", "five_hour_output",
                   "five_hour_cache_read", "five_hour_cache_write",
                   "weekly_input", "weekly_output", "weekly_cache_read",
                   "weekly_cache_write", "total_input", "total_output",
                   "total_cache_read", "total_cache_write"},
                  {"key_id", "model", "hourly_limit", "weekly_limit",
                   "total_limit", "hourly_input", "hourly_output",
                   "hourly_cache_read", "hourly_cache_write",
                   "weekly_input", "weekly_output", "weekly_cache_read",
                   "weekly_cache_write", "total_input", "total_output",
                   "total_cache_read", "total_cache_write"})

(* MIGRATIONS: the versions in the order of the array *)
MIGRATIONS == <<1, 2, 3, 4, 5>>

migrate(version, d) ==
    CASE version = 1 -> migrate_v1(d)
      [] version = 2 -> migrate_v2(d)
      [] version = 3 -> migrate_v3(d)
      [] version = 4 -> migrate_v4(d)
      [] version = 5 -> migrate_v5(d)

(* run_migrations: `if migration.version > current` *)
is_pending_OrEqual(version, current) == version >= current
is_pending(version, current) == version > current

(* run_migrations: `if current == 0 && table_exists("auth")` *)
is_pre_migration_AnyVersion(d, current) == table_exists(d, "auth")
is_pre_migration(d, current) == current = 0 /\ table_exists(d, "auth")

(* run_migrations up to its loop: create schema_version, read the version,  *)
(* adopt a database that predates the migration system                       *)
run_migrations_begin(d) ==
    LET d1 == CreateTableIfNotExists(d, "schema_version", {"version"})
        current == get_schema_version(d1)
    IN  IF is_pre_migration(d1, current)
        THEN [db |-> set_schema_version(d1, 1), current |-> 1,
              adopted |-> TRUE]
        ELSE [db |-> d1, current |-> current, adopted |-> FALSE]

(* run_migrations as a binary that ships the first `upto` migrations runs it *)
RECURSIVE run_migrations_from(_, _, _, _)
run_migrations_from(d, current, i, upto) ==
    IF i > upto
    THEN d
    ELSE IF is_pending(MIGRATIONS[i], current)
    THEN LET r == migrate(MIGRATIONS[i], d)
         IN  IF ~ r.ok
             THEN r.db
             ELSE run_migrations_from(set_schema_version(r.db, MIGRATIONS[i]),
                                      MIGRATIONS[i], i + 1, upto)
    ELSE run_migrations_from(d, current, i + 1, upto)

run_migrations(d, upto) ==
    LET b == run_migrations_begin(d)
    IN  run_migrations_from(b.db, b.current, 1, upto)

(* What init_db leaves when no database file existed *)
InitializedDb == run_migrations(EmptyDb, Len(MIGRATIONS))

(* No transformation, no scan and no concurrent task has run yet *)
IdleXf ==
    [op |-> "none", pc |-> "idle", cloak |-> FALSE, input |-> None,
     upstream |-> None, reply |-> <<>>, out |-> <<>>,
     sse |-> [tool_call_index |-> 0, in_tool_call |-> FALSE],
     keep_alives |-> 0]
NoScan == [presented |-> "", order |-> <<>>, result |-> None, compared |-> 0]
(* A request task before its request arrives *)
IdleTask ==
    [pc |-> "idle", t |-> 0, sub |-> None, snap |-> None, ws |-> None,
     usage |-> None, rows_seen |-> 0, report |-> None, verdict |-> ""]
(* The admin's set_allowed_models call, and a request's is_model_allowed *)
IdleAdmin == [pc |-> "idle", old |-> {}, models |-> <<>>, todo |-> <<>>]
IdleCheck ==
    [pc |-> "idle", model |-> "", old |-> {}, new |-> {}, total |-> None,
     allowed |-> None]
(* A refresh_if_needed call *)
IdleRefresh ==
    [pc |-> "idle", t |-> 0, expires_at |-> None, response |-> None,
     wrote |-> None, res |-> ""]
(* rejected: the first request turned away for a window limit; probe: what
   an admin call under observation found before and after it *)
(* No SSE body is being relayed *)
IdleWire ==
    [pc |-> "idle", translator |-> "", text |-> <<>>, pos |-> 0,
     buffer |-> <<>>, out |-> <<>>, usage |-> 0, keep_alives |-> 0]

NoTasks ==
    [a |-> IdleTask, b |-> IdleTask, admin |-> IdleAdmin, check |-> IdleCheck,
     r1 |-> IdleRefresh, r2 |-> IdleRefresh,
     rejected |-> None, probe |-> None, wire |-> IdleWire]

(* The start-up process: init_db has not run, is running, has returned *)
BootDown == [pc |-> "down", current |-> 0, i |-> 1, startups |-> 0]
BootUp == [pc |-> "up", current |-> Len(MIGRATIONS), i |-> Len(MIGRATIONS) + 1,
           startups |-> 1]

(* The components outside the quota engine and the key store, at start-up *)
InitExt ==
    /\ db = InitializedDb
    /\ boot = BootUp
    /\ mig_log = <<>>
    /\ xf = IdleXf
    /\ scan = NoScan
    /\ tasks = NoTasks
    /\ state_window_resets = DefaultSubscriptionState
    /\ fetched = None
    /\ verifier = None
    /\ auth_store = None
    /\ oauth_last = NoOAuthOp
    /\ stream = IdleStream

KeyIds == {"k1", "k2"}
ModelIds == {"m1", "md", "mx"}

(* rate_limits.rs: window durations *)
five_hour_ms == 5 * 60 * 60 * 1000
one_week_ms == 7 * 24 * 60 * 60 * 1000

(* The clock advances by a millisecond at a time *)
TickSteps == {1}

(* Subscription reset times the upstream may report at time t: none, one that
   has already passed, one in the near future *)
SubTimes(t) == {None, Some(t), Some(t + 1)}
SubStates(t) ==
    [five_hour_reset_at : SubTimes(t), seven_day_reset_at : SubTimes(t)]
NoSub == [five_hour_reset_at |-> None, seven_day_reset_at |-> None]
(* The first key sees every subscription state, the others none *)
SubStatesFor(id, t) == IF id = "k1" THEN SubStates(t) ELSE {NoSub}

(* Limits an admin may set *)
LimitValues == {None, Some(3)}
LimitChoices ==
    [five_hour_limit : LimitValues, weekly_limit : LimitValues,
     total_limit : LimitValues]

(* models table: "m1" is enabled, "md" is disabled, "mx" has no row. Unit
   prices are in hundredths of a microdollar per token. *)
PricedModels == {"m1", "md"}
EnabledModels == {"m1"}
ModelPrice(m) ==
    [input_price |-> 100, output_price |-> 150,
     cache_read_price |-> 10, cache_write_price |-> 125]

(* Usage reports of completed requests: costs 1 and 3 on "m1", 0 on "mx" *)
Reports ==
    { [input_tokens |-> 1, output_tokens |-> 0,
       cache_read_input_tokens |-> None, cache_creation_input_tokens |-> None],
      [input_tokens |-> 1, output_tokens |-> 1,
       cache_read_input_tokens |-> Some(1), cache_creation_input_tokens |-> None] }

Report1 == CHOOSE r \in Reports : r.output_tokens = 0
Report3 == CHOOSE r \in Reports : r.output_tokens = 1
(* The first key records usage of a priced and of an unknown model, the others
   of a priced one *)
UsageInputs == {<<"m1", Report1>>, <<"mx", Report1>>}
UsageInputsFor(id) == IF id = "k1" THEN UsageInputs ELSE {<<"m1", Report1>>}
(* Usage recorded while limits are exercised: below and at the limit *)
LimitUsageInputsFor(id) ==
    IF id = "k1" THEN {"m1"} \X Reports ELSE {<<"m1", Report1>>}

----------------------------------------------------------------------------
(* Helpers *)

Min(a, b) == IF a <= b THEN a ELSE b
Max(a, b) == IF a >= b THEN a ELSE b

(* f64::round on a non-negative value given in hundredths: half away from zero *)
RoundHundredths(x) == (x + 50) \div 100

RECURSIVE SumCostFrom(_, _, _)
(* SUM(CASE WHEN created_at >= from THEN cost_microdollars ELSE 0 END) over the
   rows of key_id in `rows` *)
SumCostFrom(rows, key_id, from) ==
    IF rows = <<>> THEN 0
    ELSE LET r == Head(rows)
         IN  (IF r.key_id = key_id /\ r.created_at >= from
              THEN r.cost_microdollars ELSE 0)
             + SumCostFrom(Tail(rows), key_id, from)

NoOp == [op |-> "none", key |-> "", kind |-> "", sub |-> None, res |-> ""]

----------------------------------------------------------------------------
(* The secret create() generated for a key id *)
SecretOf(id) == IF id = "k1" THEN "sk-proxy-1" ELSE "sk-proxy-2"

(* client_keys row after create: enabled, every limit NULL, every window
   timestamp 0 *)
NewKeyRow(secret, t) ==
    [key |-> secret, enabled |-> TRUE, created_at |-> t, last_used_at |-> None,
     allow_extra_usage |-> FALSE,
     five_hour_limit |-> None, weekly_limit |-> None, total_limit |-> None,
     five_hour_reset_at |-> 0, weekly_reset_at |-> 0,
     five_hour_count_from |-> 0, weekly_count_from |-> 0,
     total_count_from |-> 0]

(* No request is being served *)
IdleReq ==
    [pc |-> "idle", key |-> None, model |-> "", client_key |-> None,
     checks |-> <<>>, error |-> "", forwarded |-> FALSE, db_error |-> FALSE]

(* The quota engine on a store that holds every key, freshly created *)
Init ==
    /\ now = StartTime
    /\ ticks = 0
    /\ client_keys = [k \in KeyIds |-> NewKeyRow(SecretOf(k), StartTime)]
    /\ request_log = <<>>
    /\ last = NoOp
    /\ reset_keys = {}
    /\ key_allowed_models = {}
    /\ key_model_limits = {}
    /\ issued = KeyIds
    /\ req = IdleReq
    /\ served = 0
    /\ InitExt

(* The clock: timestamp_millis() never goes back *)
Tick(d) ==
    /\ ticks < MaxTicks
    /\ ticks' = ticks + 1
    /\ now' = now + d
    /\ UNCHANGED <<client_keys, request_log, last, reset_keys>>

----------------------------------------------------------------------------
(* rate_limits.rs: the quota engine *)

(* window_resets.x.filter(|&t| t > now).unwrap_or(dflt) *)
FutureOr(o, t, dflt) == IF IsSome(o) /\ Unwrap(o) > t THEN Unwrap(o) ELSE dflt

(* A re-sync that adopts any earlier subscription time, past ones included *)
EarlierOr_AnyEarlier(o, t, cur) ==
    IF IsSome(o) /\ Unwrap(o) < cur THEN Unwrap(o) ELSE cur

(* window_resets.x.filter(|&t| t > now && t < cur).unwrap_or(cur) *)
EarlierOr(o, t, cur) ==
    IF IsSome(o) /\ Unwrap(o) > t /\ Unwrap(o) < cur THEN Unwrap(o) ELSE cur

(* A window maintenance that starts the new window at `now` instead of at the
   old reset_at *)
maybe_reset_expired_windows_FromNow(row, t, window_resets) ==
    LET reset_five_hour == row.five_hour_reset_at > 0 /\ t >= row.five_hour_reset_at
        reset_weekly == row.weekly_reset_at > 0 /\ t >= row.weekly_reset_at
    IN  [row EXCEPT
            !.five_hour_count_from = IF reset_five_hour THEN t ELSE @,
            !.five_hour_reset_at =
                IF reset_five_hour
                THEN FutureOr(window_resets.five_hour_reset_at, t, t + five_hour_ms)
                ELSE @,
            !.weekly_count_from = IF reset_weekly THEN t ELSE @,
            !.weekly_reset_at =
                IF reset_weekly
                THEN FutureOr(window_resets.seven_day_reset_at, t, t + one_week_ms)
                ELSE @]

(* maybe_reset_expired_windows: the client_keys row it leaves behind *)
maybe_reset_expired_windows(row, t, window_resets) ==
    LET reset_five_hour == row.five_hour_reset_at > 0 /\ t >= row.five_hour_reset_at
        reset_weekly == row.weekly_reset_at > 0 /\ t >= row.weekly_reset_at
    IN  IF ~reset_five_hour /\ ~reset_weekly
        THEN \* re-sync: adopt earlier subscription timestamps, count_from kept
             [row EXCEPT
                !.five_hour_reset_at =
                    EarlierOr(window_resets.five_hour_reset_at, t, @),
                !.weekly_reset_at =
                    EarlierOr(window_resets.seven_day_reset_at, t, @)]
        ELSE [row EXCEPT
                !.five_hour_count_from =
                    IF reset_five_hour THEN row.five_hour_reset_at ELSE @,
                !.five_hour_reset_at =
                    IF reset_five_hour
                    THEN FutureOr(window_resets.five_hour_reset_at, t,
                                  t + five_hour_ms)
                    ELSE @,
                !.weekly_count_from =
                    IF reset_weekly THEN row.weekly_reset_at ELSE @,
                !.weekly_reset_at =
                    IF reset_weekly
                    THEN FutureOr(window_resets.seven_day_reset_at, t,
                                  t + one_week_ms)
                    ELSE @]

(* The WindowState of a row *)
WindowState(row) ==
    [five_hour_count_from |-> row.five_hour_count_from,
     weekly_count_from |-> row.weekly_count_from,
     total_count_from |-> row.total_count_from]

(* An aggregation that counts only the rows strictly after each threshold *)
aggregate_usage_costs_Strict(rows, key_id, ws) ==
    [five_hour |-> SumCostFrom(rows, key_id, ws.five_hour_count_from + 1),
     weekly |-> SumCostFrom(rows, key_id, ws.weekly_count_from + 1),
     total |-> SumCostFrom(rows, key_id, ws.total_count_from + 1)]

(* aggregate_usage_costs: three conditional sums over the rows of the key
   with created_at >= the least of the three thresholds *)
aggregate_usage_costs(rows, key_id, ws) ==
    LET min_from == Min(Min(ws.five_hour_count_from, ws.weekly_count_from),
                        ws.total_count_from)
        scanned == SelectSeq(rows, LAMBDA r :
                       r.key_id = key_id /\ r.created_at >= min_from)
    IN  [five_hour |-> SumCostFrom(scanned, key_id, ws.five_hour_count_from),
         weekly |-> SumCostFrom(scanned, key_id, ws.weekly_count_from),
         total |-> SumCostFrom(scanned, key_id, ws.total_count_from)]

(* A verdict that rejects only when the cost is above the limit *)
LimitVerdict_Strict(row, c) ==
    IF IsSome(row.five_hour_limit) /\ c.five_hour > Unwrap(row.five_hour_limit)
    THEN "five_hour"
    ELSE IF IsSome(row.weekly_limit) /\ c.weekly > Unwrap(row.weekly_limit)
    THEN "weekly"
    ELSE IF IsSome(row.total_limit) /\ c.total > Unwrap(row.total_limit)
    THEN "total"
    ELSE "ok"

(* The verdict of check_limits on limits `row` and aggregated costs `c` *)
LimitVerdict(row, c) ==
    IF row.five_hour_limit = None /\ row.weekly_limit = None
       /\ row.total_limit = None
    THEN "ok"
    ELSE IF IsSome(row.five_hour_limit) /\ c.five_hour >= Unwrap(row.five_hour_limit)
    THEN "five_hour"
    ELSE IF IsSome(row.weekly_limit) /\ c.weekly >= Unwrap(row.weekly_limit)
    THEN "weekly"
    ELSE IF IsSome(row.total_limit) /\ c.total >= Unwrap(row.total_limit)
    THEN "total"
    ELSE "ok"

(* check_limits(id, window_resets): window maintenance, then the verdict on
   the key's limits; "Key not found" when the key has no row *)
check_limits(id, window_resets) ==
    /\ IF id \in DOMAIN client_keys
       THEN LET row == maybe_reset_expired_windows(client_keys[id], now,
                                                   window_resets)
                c == aggregate_usage_costs(request_log, id, WindowState(row))
            IN  /\ client_keys' = [client_keys EXCEPT ![id] = row]
                /\ last' = [op |-> "check_limits", key |-> id, kind |-> "",
                            sub |-> window_resets.five_hour_reset_at,
                            res |-> LimitVerdict(row, c)]
       ELSE /\ client_keys' = client_keys
            /\ last' = [op |-> "check_limits", key |-> id, kind |-> "",
                        sub |-> window_resets.five_hour_reset_at,
                        res |-> "key_not_found"]
    /\ UNCHANGED <<now, ticks, request_log, reset_keys>>

(* compute_cost: round(sum of tokens x price); 0 when the model has no row *)
compute_cost(model, report) ==
    IF model \notin PricedModels THEN 0
    ELSE LET p == ModelPrice(model)
             opt(o) == IF IsSome(o) THEN Unwrap(o) ELSE 0
         IN  RoundHundredths(
                 report.input_tokens * p.input_price
                 + report.output_tokens * p.output_price
                 + opt(report.cache_read_input_tokens) * p.cache_read_price
                 + opt(report.cache_creation_input_tokens) * p.cache_write_price)

(* record_model_usage: the reset timestamps after "initialize if not yet set" *)
InitResetTimestamps(row, t, window_resets) ==
    [row EXCEPT
        !.five_hour_reset_at =
            IF @ = 0 THEN FutureOr(window_resets.five_hour_reset_at, t, 0) ELSE @,
        !.weekly_reset_at =
            IF @ = 0 THEN FutureOr(window_resets.seven_day_reset_at, t, 0) ELSE @]

(* record_model_usage(key_id, model, report, window_resets) *)
record_model_usage(key_id, model, report, window_resets) ==
    /\ key_id \in DOMAIN client_keys
    /\ Len(request_log) < MaxLog
    /\ LET row == maybe_reset_expired_windows(client_keys[key_id], now, window_resets)
           opt(o) == IF IsSome(o) THEN Unwrap(o) ELSE 0
       IN  /\ client_keys' =
                [client_keys EXCEPT ![key_id] =
                    InitResetTimestamps(row, now, window_resets)]
           /\ request_log' = Append(request_log,
                [key_id |-> key_id, model |-> model,
                 input_tokens |-> report.input_tokens,
                 output_tokens |-> report.output_tokens,
                 cache_read_tokens |-> opt(report.cache_read_input_tokens),
                 cache_write_tokens |-> opt(report.cache_creation_input_tokens),
                 cost_microdollars |-> compute_cost(model, report),
                 created_at |-> now])
    /\ last' = [op |-> "record_model_usage", key |-> key_id, kind |-> "",
                sub |-> None, res |-> ""]
    /\ UNCHANGED <<now, ticks, reset_keys>>

(* The TokenUsage get_usage reports for a row at time t *)
TokenUsage(rows, id, row, t) ==
    LET five_hour_expired == row.five_hour_reset_at > 0 /\ t >= row.five_hour_reset_at
        weekly_expired == row.weekly_reset_at > 0 /\ t >= row.weekly_reset_at
        c == aggregate_usage_costs(rows, id, WindowState(row))
    IN  [five_hour_tokens |-> IF five_hour_expired THEN 0 ELSE c.five_hour,
         five_hour_reset_at |-> IF five_hour_expired THEN 0 ELSE row.five_hour_reset_at,
         weekly_tokens |-> IF weekly_expired THEN 0 ELSE c.weekly,
         weekly_reset_at |-> IF weekly_expired THEN 0 ELSE row.weekly_reset_at,
         total_tokens |-> c.total]

(* get_usage(id): what the read-only view returns in the current state *)
get_usage(id) == TokenUsage(request_log, id, client_keys[id], now)

UsageResetType == {"FiveHour", "Weekly", "Total", "All"}
(* reset_usage is exercised on the first key *)
ResetTypesFor(id) == IF id = "k1" THEN UsageResetType ELSE {}

(* A reset that moves count_from and leaves reset_at alone *)
ResetRow_KeepResetAt(row, reset_type, t) ==
    CASE reset_type = "FiveHour" -> [row EXCEPT !.five_hour_count_from = t]
      [] reset_type = "Weekly" -> [row EXCEPT !.weekly_count_from = t]
      [] reset_type = "Total" -> [row EXCEPT !.total_count_from = t]
      [] reset_type = "All" ->
            [row EXCEPT !.five_hour_count_from = t, !.weekly_count_from = t,
                        !.total_count_from = t]

(* A five-hour reset that also moves the weekly marker *)
ResetRow_FiveHourAlsoWeekly(row, reset_type, t) ==
    CASE reset_type = "FiveHour" ->
            [row EXCEPT !.five_hour_count_from = t, !.five_hour_reset_at = 0,
                        !.weekly_count_from = t]
      [] reset_type = "Weekly" ->
            [row EXCEPT !.weekly_count_from = t, !.weekly_reset_at = 0]
      [] reset_type = "Total" ->
            [row EXCEPT !.total_count_from = t]
      [] reset_type = "All" ->
            [row EXCEPT !.five_hour_count_from = t, !.weekly_count_from = t,
                        !.total_count_from = t,
                        !.five_hour_reset_at = 0, !.weekly_reset_at = 0]

(* reset_usage: the row the UPDATE leaves behind *)
ResetRow(row, reset_type, t) ==
    CASE reset_type = "FiveHour" ->
            [row EXCEPT !.five_hour_count_from = t, !.five_hour_reset_at = 0]
      [] reset_type = "Weekly" ->
            [row EXCEPT !.weekly_count_from = t, !.weekly_reset_at = 0]
      [] reset_type = "Total" ->
            [row EXCEPT !.total_count_from = t]
      [] reset_type = "All" ->
            [row EXCEPT !.five_hour_count_from = t, !.weekly_count_from = t,
                        !.total_count_from = t,
                        !.five_hour_reset_at = 0, !.weekly_reset_at = 0]

(* A reset that also deletes the rows it no longer counts *)
reset_usage_Deleting(id, reset_type) ==
    /\ id \in DOMAIN client_keys
    /\ client_keys' = [client_keys EXCEPT ![id] = ResetRow(@, reset_type, now)]
    /\ request_log' = SelectSeq(request_log, LAMBDA r :
                          r.key_id # id \/ r.created_at >= now)
    /\ last' = [op |-> "reset_usage", key |-> id, kind |-> reset_type,
                sub |-> None, res |-> ""]
    /\ reset_keys' = reset_keys \cup {id}
    /\ UNCHANGED <<now, ticks>>

(* reset_usage(id, reset_type) *)
reset_usage(id, reset_type) ==
    /\ id \in DOMAIN client_keys
    /\ client_keys' = [client_keys EXCEPT ![id] = ResetRow(@, reset_type, now)]
    /\ last' = [op |-> "reset_usage", key |-> id, kind |-> reset_type,
                sub |-> None, res |-> ""]
    /\ reset_keys' = reset_keys \cup {id}
    /\ UNCHANGED <<now, ticks, request_log>>

(* set_limits(id, limits) *)
set_limits(id, limits) ==
    /\ id \in DOMAIN client_keys
    /\ client_keys' = [client_keys EXCEPT ![id] =
            [@ EXCEPT !.five_hour_limit = limits.five_hour_limit,
                      !.weekly_limit = limits.weekly_limit,
                      !.total_limit = limits.total_limit]]
    /\ last' = [op |-> "set_limits", key |-> id, kind |-> "", sub |-> None,
                res |-> ""]
    /\ UNCHANGED <<now, ticks, request_log, reset_keys>>

(* routes/admin/usage_history.rs: DELETE /usage-history *)
delete_usage_history ==
    /\ request_log' = <<>>
    /\ last' = [op |-> "delete_usage_history", key |-> "", kind |-> "",
                sub |-> None, res |-> ""]
    /\ UNCHANGED <<now, ticks, client_keys, reset_keys>>

Next ==
    \/ \E d \in TickSteps : Tick(d) /\ UNCHANGED <<auth_vars, ext_vars>>
    \/ \E id \in KeyIds : \E s \in SubStatesFor(id, now) :
          check_limits(id, s) /\ UNCHANGED <<auth_vars, ext_vars>>
    \/ \E id \in KeyIds : \E u \in UsageInputsFor(id), s \in SubStatesFor(id, now) :
          record_model_usage(id, u[1], u[2], s) /\ UNCHANGED <<auth_vars, ext_vars>>
    \/ \E id \in KeyIds : \E t \in ResetTypesFor(id) :
          reset_usage(id, t) /\ UNCHANGED <<auth_vars, ext_vars>>
    \/ delete_usage_history /\ UNCHANGED <<auth_vars, ext_vars>>

Spec == Init /\ [][Next]_vars

----------------------------------------------------------------------------
(* The quota engine with an admin who sets limits *)

(* Subscription states seen while limits are exercised: none, or both windows
   ending in the near future *)
LimitSubStates(t) ==
    {NoSub, [five_hour_reset_at |-> Some(t + 1), seven_day_reset_at |-> Some(t + 1)]}

NextLimits ==
    \/ \E d \in TickSteps : Tick(d) /\ UNCHANGED <<auth_vars, ext_vars>>
    \/ \E l \in LimitChoices : set_limits("k1", l) /\ UNCHANGED <<auth_vars, ext_vars>>
    \/ \E s \in LimitSubStates(now) :
          check_limits("k1", s) /\ UNCHANGED <<auth_vars, ext_vars>>
    \/ \E id \in KeyIds : \E u \in LimitUsageInputsFor(id) :
          \E s \in (IF id = "k1" THEN LimitSubStates(now) ELSE {NoSub}) :
             record_model_usage(id, u[1], u[2], s) /\ UNCHANGED <<auth_vars, ext_vars>>
    \/ \E t \in {"FiveHour", "Weekly"} : reset_usage("k1", t) /\ UNCHANGED <<auth_vars, ext_vars>>

SpecLimits == Init /\ [][NextLimits]_vars

----------------------------------------------------------------------------
(* client_keys.rs: the client-key store *)

(* create(): a fresh uuid and a fresh secret; the row is enabled *)
create(id) ==
    /\ id \notin issued
    /\ issued' = issued \cup {id}
    /\ client_keys' = [k \in DOMAIN client_keys \cup {id} |->
                          IF k = id THEN NewKeyRow(SecretOf(id), now)
                          ELSE client_keys[k]]
    /\ UNCHANGED <<now, ticks, request_log, last, reset_keys,
                   key_allowed_models, key_model_limits, req, served>>

(* set_enabled(id, enabled): UPDATE ... WHERE id = ? *)
set_enabled(id, enabled) ==
    /\ id \in DOMAIN client_keys
    /\ client_keys' = [client_keys EXCEPT ![id].enabled = enabled]
    /\ UNCHANGED <<now, ticks, request_log, last, reset_keys,
                   key_allowed_models, key_model_limits, issued, req, served>>

(* set_allow_extra_usage(id, allow) *)
set_allow_extra_usage(id, allow) ==
    /\ id \in DOMAIN client_keys
    /\ client_keys' = [client_keys EXCEPT ![id].allow_extra_usage = allow]
    /\ UNCHANGED <<now, ticks, request_log, last, reset_keys,
                   key_allowed_models, key_model_limits, issued, req, served>>

(* delete(id): DELETE FROM client_keys; the foreign keys of key_allowed_models
   and of the per-model limits cascade *)
delete(id) ==
    /\ id \in DOMAIN client_keys
    /\ client_keys' = [k \in DOMAIN client_keys \ {id} |-> client_keys[k]]
    /\ key_allowed_models' = {p \in key_allowed_models : p[1] # id}
    /\ key_model_limits' = {r \in key_model_limits : r.key_id # id}
    /\ UNCHANGED <<now, ticks, request_log, last, reset_keys, issued, req, served>>

(* A lookup that forgets the enabled = 1 filter *)
validate_AnyRow(keys, key) ==
    LET matching == {id \in DOMAIN keys : keys[id].key = key}
    IN  IF matching = {} THEN None ELSE Some(CHOOSE id \in matching : TRUE)

(* validate(key): the row among those with enabled = 1 whose secret equals the
   presented string; the column is UNIQUE, so at most one row matches *)
validate(keys, key) ==
    LET matching == {id \in DOMAIN keys : keys[id].enabled /\ keys[id].key = key}
    IN  IF matching = {} THEN None ELSE Some(CHOOSE id \in matching : TRUE)

(* set_allowed_models(key_id, models): DELETE the key's rows, INSERT the new *)
set_allowed_models(key_id, allowed) ==
    /\ key_id \in DOMAIN client_keys
    /\ key_allowed_models' =
          {p \in key_allowed_models : p[1] # key_id}
          \cup {<<key_id, m>> : m \in allowed}
    /\ UNCHANGED <<now, ticks, client_keys, request_log, last, reset_keys,
                   key_model_limits, issued, req, served>>

(* A whitelist check that takes a key without rows to allow no model *)
is_model_allowed_EmptyDenies(allowed_models, key_id, model) ==
    <<key_id, model>> \in allowed_models

(* is_model_allowed(key_id, model): no rows for the key = every model *)
is_model_allowed(allowed_models, key_id, model) ==
    LET total == Cardinality({p \in allowed_models : p[1] = key_id})
        count == Cardinality({p \in allowed_models : p = <<key_id, model>>})
    IN  IF total = 0 THEN TRUE ELSE count > 0

(* models.is_valid(model): a row with that id and enabled = 1 *)
is_valid(model) == model \in EnabledModels

(* set_model_limits(key_id, model, limits): UPSERT into key_model_limits; a
   new row starts with count_from 0 *)
set_model_limits(key_id, model, limits) ==
    /\ key_id \in DOMAIN client_keys
    /\ LET old == {r \in key_model_limits : r.key_id = key_id /\ r.model = model}
           count_from == IF old = {} THEN 0 ELSE (CHOOSE r \in old : TRUE).count_from
       IN  key_model_limits' =
              (key_model_limits \ old)
              \cup {[key_id |-> key_id, model |-> model,
                     five_hour_limit |-> limits.five_hour_limit,
                     weekly_limit |-> limits.weekly_limit,
                     total_limit |-> limits.total_limit,
                     count_from |-> count_from]}
    /\ UNCHANGED <<now, ticks, client_keys, request_log, last, reset_keys,
                   key_allowed_models, issued, req, served>>

RECURSIVE query_model_cost(_, _, _, _)
(* query_model_cost: SUM(cost_microdollars) over the rows of the key and the
   model with created_at >= from *)
query_model_cost(rows, key_id, model, from) ==
    IF rows = <<>> THEN 0
    ELSE LET r == Head(rows)
         IN  (IF r.key_id = key_id /\ r.model = model /\ r.created_at >= from
              THEN r.cost_microdollars ELSE 0)
             + query_model_cost(Tail(rows), key_id, model, from)

(* A verdict that counts every window from the key's count_from alone *)
ModelLimitVerdict_WindowOnly(model_limits, rows, key_id, model, ws) ==
    LET mine == {r \in model_limits : r.key_id = key_id /\ r.model = model}
    IN  IF mine = {} THEN "ok"
        ELSE LET r == CHOOSE x \in mine : TRUE
                 five_hour_from == ws.five_hour_count_from
                 weekly_from == ws.weekly_count_from
                 total_from == ws.total_count_from
             IN  IF IsSome(r.five_hour_limit)
                    /\ query_model_cost(rows, key_id, model, five_hour_from)
                         >= Unwrap(r.five_hour_limit)
                 THEN "five_hour"
                 ELSE IF IsSome(r.weekly_limit)
                    /\ query_model_cost(rows, key_id, model, weekly_from)
                         >= Unwrap(r.weekly_limit)
                 THEN "weekly"
                 ELSE IF IsSome(r.total_limit)
                    /\ query_model_cost(rows, key_id, model, total_from)
                         >= Unwrap(r.total_limit)
                 THEN "total"
                 ELSE "ok"

(* check_model_limits: the verdict, given the WindowState maintenance returned *)
ModelLimitVerdict(model_limits, rows, key_id, model, ws) ==
    LET mine == {r \in model_limits : r.key_id = key_id /\ r.model = model}
    IN  IF mine = {} THEN "ok"
        ELSE LET r == CHOOSE x \in mine : TRUE
                 five_hour_from == Max(ws.five_hour_count_from, r.count_from)
                 weekly_from == Max(ws.weekly_count_from, r.count_from)
                 total_from == Max(ws.total_count_from, r.count_from)
             IN  IF IsSome(r.five_hour_limit)
                    /\ query_model_cost(rows, key_id, model, five_hour_from)
                         >= Unwrap(r.five_hour_limit)
                 THEN "five_hour"
                 ELSE IF IsSome(r.weekly_limit)
                    /\ query_model_cost(rows, key_id, model, weekly_from)
                         >= Unwrap(r.weekly_limit)
                 THEN "weekly"
                 ELSE IF IsSome(r.total_limit)
                    /\ query_model_cost(rows, key_id, model, total_from)
                         >= Unwrap(r.total_limit)
                 THEN "total"
                 ELSE "ok"

(* The WindowState maintenance returns for a key without a row *)
NoWindowState ==
    [five_hour_count_from |-> 0, weekly_count_from |-> 0, total_count_from |-> 0]

----------------------------------------------------------------------------
(* routes/auth.rs, routes/anthropic.rs: serving one inbound request *)

(* The checks of authenticate_key, in the order of its text *)
CheckOrder ==
    <<"validate", "check_limits", "is_valid", "is_model_allowed",
      "check_model_limits", "extra_usage">>

(* The ProxyError each check returns when it fails *)
ErrorOf(check) ==
    CASE check = "validate" -> "InvalidApiKey"
      [] check = "check_limits" -> "RateLimitExceeded"
      [] check = "is_valid" -> "InvalidModel"
      [] check = "is_model_allowed" -> "ModelNotAllowed"
      [] check = "check_model_limits" -> "RateLimitExceeded"
      [] check = "extra_usage" -> "RateLimitExceeded"

(* error.rs: the HTTP status of a ProxyError *)
StatusOf(error) ==
    CASE error \in {"InvalidApiKey", "MissingHeader", "NoAuthConfigured"} -> 401
      [] error = "RateLimitExceeded" -> 429
      [] error \in {"OAuthError", "IoError", "DatabaseError"} -> 500
      [] error \in {"NetworkError", "AnthropicApiError", "ParseError"} -> 502

(* The HTTP status of the two model-validation errors, which error.rs of this
   tree does not list: unknown or disabled model 400, model outside the key's
   whitelist 403 *)
ModelErrorStatus(error) ==
    CASE error = "InvalidModel" -> 400
      [] error = "ModelNotAllowed" -> 403

(* Secrets a client may present: those create() hands out and one it never
   handed out *)
Presented == {None, Some("sk-bogus")} \cup {Some(SecretOf(k)) : k \in KeyIds}

(* What the upstream reports of the subscription's utilization, in percent *)
UtilizationPairs ==
    { <<None, None>>, <<Some(99), Some(99)>>, <<Some(100), None>>,
      <<Some(20), Some(101)>> }
(* Answers of the usage endpoint that carry no reset time *)
Utilizations ==
    { [DefaultSubscriptionState EXCEPT !.five_hour_utilization = u[1],
                                       !.seven_day_utilization = u[2]] :
        u \in UtilizationPairs }
(* Answers of the usage endpoint at time t, with and without a reset time *)
FreshStates(t) ==
    { [u EXCEPT !.five_hour_reset_at = r] :
        u \in Utilizations, r \in {None, Some(t + five_hour_ms)} }

(* refresh_if_needed(): a token, no credentials stored, or a failed refresh *)
TokenOutcomes == {"token", "none", "error"}

(* A stage that goes on to the next check whatever the check found *)
AfterCheck_NoShortCircuit(r, check, passed, next_pc) ==
    [r EXCEPT !.checks = Append(@, check),
              !.pc = next_pc,
              !.error = IF passed \/ @ # "" THEN @ ELSE ErrorOf(check)]

(* authenticate_key after one check: on failure return its error, else go on *)
AfterCheck(r, check, passed, next_pc) ==
    [r EXCEPT !.checks = Append(@, check),
              !.pc = IF passed THEN next_pc ELSE "done",
              !.error = IF passed THEN @ ELSE ErrorOf(check)]

(* authenticate_anthropic: read the key from the headers *)
authenticate_anthropic(presented, model) ==
    /\ req.pc \in {"idle", "done"}
    /\ served < MaxRequests
    /\ served' = served + 1
    /\ req' = IF presented = None
              THEN [IdleReq EXCEPT !.pc = "done", !.model = model,
                                   !.error = "MissingHeader"]
              ELSE [IdleReq EXCEPT !.pc = "validate", !.key = presented,
                                   !.model = model]
    /\ UNCHANGED <<now, ticks, client_keys, request_log, last, reset_keys,
                   key_allowed_models, key_model_limits, issued>>

(* authenticate_key: client_keys.validate(key) *)
auth_validate ==
    /\ req.pc = "validate"
    /\ LET found == validate(client_keys, Unwrap(req.key))
       IN  req' = [AfterCheck(req, "validate", IsSome(found), "check_limits")
                     EXCEPT !.client_key =
                        IF IsSome(found)
                        THEN Some([id |-> Unwrap(found),
                                   allow_extra_usage |->
                                      client_keys[Unwrap(found)].allow_extra_usage])
                        ELSE None]
    /\ UNCHANGED <<now, ticks, client_keys, request_log, last, reset_keys,
                   key_allowed_models, key_model_limits, issued, served>>

(* authenticate_key: client_keys.check_limits(id) *)
auth_check_limits(window_resets) ==
    /\ req.pc = "check_limits"
    /\ check_limits(Unwrap(req.client_key).id, window_resets)
    /\ req' = AfterCheck(req, "check_limits", last'.res = "ok", "is_valid")
    /\ UNCHANGED <<key_allowed_models, key_model_limits, issued, served>>

(* authenticate_key: models.is_valid(model) *)
auth_is_valid ==
    /\ req.pc = "is_valid"
    /\ req' = AfterCheck(req, "is_valid", is_valid(req.model), "is_model_allowed")
    /\ UNCHANGED <<now, ticks, client_keys, request_log, last, reset_keys,
                   key_allowed_models, key_model_limits, issued, served>>

(* authenticate_key: client_keys.is_model_allowed(id, model) *)
auth_is_model_allowed ==
    /\ req.pc = "is_model_allowed"
    /\ req' = AfterCheck(req, "is_model_allowed",
                  is_model_allowed(key_allowed_models,
                                   Unwrap(req.client_key).id, req.model),
                  "check_model_limits")
    /\ UNCHANGED <<now, ticks, client_keys, request_log, last, reset_keys,
                   key_allowed_models, key_model_limits, issued, served>>

(* authenticate_key: client_keys.check_model_limits(id, model), which runs
   window maintenance before it reads the per-model limits *)
auth_check_model_limits(window_resets) ==
    /\ req.pc = "check_model_limits"
    /\ LET id == Unwrap(req.client_key).id
           row == IF id \in DOMAIN client_keys
                  THEN maybe_reset_expired_windows(client_keys[id], now,
                                                   window_resets)
                  ELSE NoWindowState
           verdict == ModelLimitVerdict(key_model_limits, request_log, id,
                                        req.model,
                                        IF id \in DOMAIN client_keys
                                        THEN WindowState(row) ELSE NoWindowState)
       IN  /\ client_keys' = IF id \in DOMAIN client_keys
                             THEN [client_keys EXCEPT ![id] = row]
                             ELSE client_keys
           /\ req' = AfterCheck(req, "check_model_limits", verdict = "ok",
                                "extra_usage")
    /\ UNCHANGED <<now, ticks, request_log, last, reset_keys,
                   key_allowed_models, key_model_limits, issued, served>>

(* A fetch that answers from the cache while the cache holds a reset time *)
fetch_fresh_subscription_state_Cached(cached, answer) ==
    [ret |-> IF IsSome(cached.five_hour_reset_at) THEN cached ELSE answer,
     cache |-> IF IsSome(answer.five_hour_reset_at) THEN answer ELSE cached]

(* fetch_fresh_subscription_state: always ask the upstream, whose answer (the
   default state when the call fails) is returned; the cache takes it only if
   it carries a five-hour reset time *)
fetch_fresh_subscription_state(cached, answer) ==
    [ret |-> answer,
     cache |-> IF IsSome(answer.five_hour_reset_at) THEN answer ELSE cached]

(* authenticate_key: the extra-usage gate; only a key without
   allow_extra_usage makes the proxy ask the upstream *)
auth_extra_usage(answer) ==
    /\ req.pc = "extra_usage"
    /\ IF ~Unwrap(req.client_key).allow_extra_usage
       THEN LET f == fetch_fresh_subscription_state(state_window_resets, answer)
                sub == f.ret
                is_over ==
                   \/ IsSome(sub.five_hour_utilization)
                        /\ Unwrap(sub.five_hour_utilization) >= 100
                   \/ IsSome(sub.seven_day_utilization)
                        /\ Unwrap(sub.seven_day_utilization) >= 100
            IN  /\ req' = AfterCheck(req, "extra_usage", ~is_over,
                                     "get_oauth_token")
                /\ state_window_resets' = f.cache
                /\ fetched' = Some(answer)
       ELSE /\ req' = AfterCheck(req, "extra_usage", TRUE, "get_oauth_token")
            /\ UNCHANGED sub_vars
    /\ UNCHANGED <<now, ticks, client_keys, request_log, last, reset_keys,
                   key_allowed_models, key_model_limits, issued, served>>

(* authenticate_key: update_last_used, then get_oauth_token *)
auth_get_oauth_token(outcome) ==
    /\ req.pc = "get_oauth_token"
    /\ LET id == Unwrap(req.client_key).id
       IN  client_keys' = IF id \in DOMAIN client_keys
                          THEN [client_keys EXCEPT ![id].last_used_at = Some(now)]
                          ELSE client_keys
    /\ req' = CASE outcome = "token" -> [req EXCEPT !.pc = "forward"]
                [] outcome = "none" ->
                     [req EXCEPT !.pc = "done", !.error = "NoAuthConfigured"]
                [] outcome = "error" ->
                     [req EXCEPT !.pc = "done", !.error = "OAuthError"]
    /\ UNCHANGED <<now, ticks, request_log, last, reset_keys,
                   key_allowed_models, key_model_limits, issued, served>>

(* messages: the request goes upstream and the upstream fails or answers
   without usage *)
messages_forward ==
    /\ req.pc = "forward"
    /\ req' = [req EXCEPT !.pc = "done", !.forwarded = TRUE]
    /\ UNCHANGED <<now, ticks, client_keys, request_log, last, reset_keys,
                   key_allowed_models, key_model_limits, issued, served>>

(* messages: the request goes upstream and the usage of the answer is
   recorded *)
messages_forward_usage(report, window_resets) ==
    /\ req.pc = "forward"
    /\ record_model_usage(Unwrap(req.client_key).id, req.model, report,
                          window_resets)
    /\ req' = [req EXCEPT !.pc = "done", !.forwarded = TRUE]
    /\ UNCHANGED <<key_allowed_models, key_model_limits, issued, served>>

(* What the admin does to keys in this specification *)
AuthLimits ==
    { [five_hour_limit |-> None, weekly_limit |-> None, total_limit |-> None],
      [five_hour_limit |-> None, weekly_limit |-> None, total_limit |-> Some(3)] }
AuthWhitelists == {{}, {"m1"}, {"md"}}
RequestModels == ModelIds

(* An empty store: no key has been created *)
InitAuth ==
    /\ now = StartTime
    /\ ticks = 0
    /\ client_keys = [k \in {} |-> NewKeyRow(SecretOf(k), StartTime)]
    /\ request_log = <<>>
    /\ last = NoOp
    /\ reset_keys = {}
    /\ key_allowed_models = {}
    /\ key_model_limits = {}
    /\ issued = {}
    /\ req = IdleReq
    /\ served = 0
    /\ InitExt

NextAuth ==
    \/ \E id \in KeyIds : create(id) /\ UNCHANGED ext_vars
    \/ \E id \in KeyIds, b \in BOOLEAN : set_enabled(id, b) /\ UNCHANGED ext_vars
    \/ \E id \in KeyIds : delete(id) /\ UNCHANGED ext_vars
    \/ \E b \in BOOLEAN : set_allow_extra_usage("k1", b) /\ UNCHANGED ext_vars
    \/ \E l \in AuthLimits : set_limits("k1", l) /\ UNCHANGED <<auth_vars, ext_vars>>
    \/ \E w \in AuthWhitelists : set_allowed_models("k1", w) /\ UNCHANGED ext_vars
    \/ \E l \in AuthLimits : set_model_limits("k1", "m1", l) /\ UNCHANGED ext_vars
    \/ \E p \in Presented, m \in RequestModels : authenticate_anthropic(p, m) /\ UNCHANGED ext_vars
    \/ auth_validate /\ UNCHANGED ext_vars
    \/ auth_check_limits(NoSub) /\ UNCHANGED ext_vars
    \/ auth_is_valid /\ UNCHANGED ext_vars
    \/ auth_is_model_allowed /\ UNCHANGED ext_vars
    \/ auth_check_model_limits(NoSub) /\ UNCHANGED ext_vars
    \/ \E u \in Utilizations : auth_extra_usage(u) /\ UNCHANGED ext_but_sub
    \/ \E t \in TokenOutcomes : auth_get_oauth_token(t) /\ UNCHANGED ext_vars
    \/ messages_forward /\ UNCHANGED ext_vars
    \/ messages_forward_usage(Report3, NoSub) /\ UNCHANGED ext_vars

SpecAuth == InitAuth /\ [][NextAuth]_vars

----------------------------------------------------------------------------
(* The extra-usage gate of one key, against an upstream whose answers fill
   the subscription-state cache *)

NextGate ==
    \/ \E b \in BOOLEAN : set_allow_extra_usage("k1", b) /\ UNCHANGED ext_vars
    \/ authenticate_anthropic(Some(SecretOf("k1")), "m1") /\ UNCHANGED ext_vars
    \/ auth_validate /\ UNCHANGED ext_vars
    \/ auth_check_limits(NoSub) /\ UNCHANGED ext_vars
    \/ auth_is_valid /\ UNCHANGED ext_vars
    \/ auth_is_model_allowed /\ UNCHANGED ext_vars
    \/ auth_check_model_limits(NoSub) /\ UNCHANGED ext_vars
    \/ \E u \in FreshStates(now) : auth_extra_usage(u) /\ UNCHANGED ext_but_sub
    \/ auth_get_oauth_token("token") /\ UNCHANGED ext_vars
    \/ messages_forward /\ UNCHANGED ext_vars

SpecGate == Init /\ [][NextGate]_vars

----------------------------------------------------------------------------
(* auth/oauth.rs: the OAuth manager (PKCE) and the stored credential *)

(* refresh_if_needed: a token is refreshed from 60 s before it expires *)
RefreshMarginMs == 60000

(* generate_verifier(): 32 random bytes; two of the values it may draw *)
Verifiers == {"v1", "v2"}

(* TokenResponse.expires_in, in seconds: a token due for refresh at once and
   one due a second later *)
ExpiresIn == {60, 61}

(* What the token endpoint may answer: no answer (network error), a
   non-success status whose body names invalid_grant or does not, a success
   whose body does not parse, or a success carrying a TokenResponse *)
TokenResponses ==
    { [kind |-> "network_error"], [kind |-> "invalid_grant"],
      [kind |-> "http_error"], [kind |-> "parse_error"] }
    \cup { [kind |-> "token", access_token |-> a, refresh_token |-> "rt",
            expires_in |-> e] : a \in {"at1", "at2"}, e \in ExpiresIn }

(* Auth::OAuth *)
OAuthCredential(access, refresh, expires) ==
    [type |-> "oauth", access |-> access, refresh |-> refresh,
     expires |-> expires]
(* Auth::Api and Auth::WellKnown, as an operator may have put them in the
   table *)
StaticCredentials ==
    { [type |-> "api", key |-> "sk-ant-api"],
      [type |-> "wellknown", key |-> "wk", token |-> "wk-token"] }

(* start_flow(): remember a new verifier, return the authorization URL *)
start_flow(v) ==
    /\ verifier' = Some(v)
    /\ oauth_last' = [op |-> "start_flow", response |-> None,
                      contacted |-> FALSE, res |-> "url"]
    /\ UNCHANGED auth_store

(* An exchange that goes to the token endpoint without a pending flow *)
exchange_code_NoFlowCheck(response) ==
    /\ IF response.kind = "token"
       THEN /\ auth_store' = Some(OAuthCredential(response.access_token,
                                      response.refresh_token,
                                      now + response.expires_in * 1000))
            /\ verifier' = None
       ELSE UNCHANGED <<auth_store, verifier>>
    /\ oauth_last' = [op |-> "exchange_code", response |-> Some(response),
                      contacted |-> TRUE,
                      res |-> IF response.kind = "token" THEN "ok" ELSE "error"]

(* exchange_code(code): without a pending verifier fail at once; else post
   the code, and on a parsed success store the credential and clear the
   verifier *)
exchange_code(response) ==
    IF verifier = None
    THEN /\ oauth_last' = [op |-> "exchange_code", response |-> None,
                           contacted |-> FALSE, res |-> "error"]
         /\ UNCHANGED <<auth_store, verifier>>
    ELSE /\ IF response.kind = "token"
            THEN /\ auth_store' = Some(OAuthCredential(response.access_token,
                                           response.refresh_token,
                                           now + response.expires_in * 1000))
                 /\ verifier' = None
            ELSE UNCHANGED <<auth_store, verifier>>
         /\ oauth_last' = [op |-> "exchange_code", response |-> Some(response),
                           contacted |-> TRUE,
                           res |-> IF response.kind = "token" THEN "ok"
                                   ELSE "error"]

(* A refresh that reports invalid_grant like any other failed refresh *)
refresh_if_needed_KeepCredential(response) ==
    /\ UNCHANGED verifier
    /\ IF auth_store = None
       THEN /\ oauth_last' = [op |-> "refresh_if_needed", response |-> None,
                              contacted |-> FALSE, res |-> "none"]
            /\ UNCHANGED auth_store
       ELSE LET auth == Unwrap(auth_store)
            IN  IF auth.type # "oauth" \/ now + RefreshMarginMs < auth.expires
                THEN /\ oauth_last' = [op |-> "refresh_if_needed",
                                       response |-> None,
                                       contacted |-> FALSE, res |-> "token"]
                     /\ UNCHANGED auth_store
                ELSE /\ oauth_last' =
                           [op |-> "refresh_if_needed",
                            response |-> Some(response), contacted |-> TRUE,
                            res |-> IF response.kind = "token" THEN "token"
                                    ELSE "error"]
                     /\ auth_store' =
                           IF response.kind = "token"
                           THEN Some(OAuthCredential(response.access_token,
                                        response.refresh_token,
                                        now + response.expires_in * 1000))
                           ELSE auth_store

(* refresh_if_needed(): Ok(None) without a credential; a static key or a
   token not yet within the margin as it is; else post a refresh: no answer,
   a failure without invalid_grant and an unparsable success are errors,
   invalid_grant removes the credential and gives Ok(None), a TokenResponse
   replaces the tokens *)
refresh_if_needed(response) ==
    /\ UNCHANGED verifier
    /\ IF auth_store = None
       THEN /\ oauth_last' = [op |-> "refresh_if_needed", response |-> None,
                              contacted |-> FALSE, res |-> "none"]
            /\ UNCHANGED auth_store
       ELSE LET auth == Unwrap(auth_store)
            IN  IF auth.type # "oauth" \/ now + RefreshMarginMs < auth.expires
                THEN /\ oauth_last' = [op |-> "refresh_if_needed",
                                       response |-> None,
                                       contacted |-> FALSE, res |-> "token"]
                     /\ UNCHANGED auth_store
                ELSE /\ oauth_last' =
                           [op |-> "refresh_if_needed",
                            response |-> Some(response), contacted |-> TRUE,
                            res |-> CASE response.kind = "token" -> "token"
                                      [] response.kind = "invalid_grant" -> "none"
                                      [] OTHER -> "error"]
                     /\ auth_store' =
                           CASE response.kind = "token" ->
                                  Some(OAuthCredential(response.access_token,
                                          response.refresh_token,
                                          now + response.expires_in * 1000))
                             [] response.kind = "invalid_grant" -> None
                             [] OTHER -> auth_store

(* logout(): forget the verifier and remove the credential *)
logout ==
    /\ verifier' = None
    /\ auth_store' = None
    /\ oauth_last' = [op |-> "logout", response |-> None,
                      contacted |-> FALSE, res |-> "ok"]

(* error.rs: the text of ProxyError::NoAuthConfigured *)
MessageOf(error) ==
    CASE error = "NoAuthConfigured" -> "No authentication configured"
      [] error = "InvalidApiKey" -> "Invalid API key"
      [] OTHER -> ""

(* get_oauth_token inside authenticate_key: refresh_if_needed decides what
   the request gets *)
auth_get_oauth_token_refresh(response) ==
    /\ refresh_if_needed(response)
    /\ auth_get_oauth_token(oauth_last'.res)

(* The clock advances by a second at a time while tokens age *)
OAuthTickSteps == {1000}

(* Keys that may use extra usage (so that the gate asks the upstream nothing),
   no flow pending, and nothing, a static key or a static token stored *)
InitOAuth ==
    /\ now = StartTime
    /\ ticks = 0
    /\ client_keys = [k \in KeyIds |->
                         [NewKeyRow(SecretOf(k), StartTime)
                            EXCEPT !.allow_extra_usage = TRUE]]
    /\ request_log = <<>>
    /\ last = NoOp
    /\ reset_keys = {}
    /\ key_allowed_models = {}
    /\ key_model_limits = {}
    /\ issued = KeyIds
    /\ req = IdleReq
    /\ served = 0
    /\ state_window_resets = DefaultSubscriptionState
    /\ fetched = None
    /\ verifier = None
    /\ auth_store \in {None} \cup {Some(c) : c \in StaticCredentials}
    /\ oauth_last = NoOAuthOp
    /\ stream = IdleStream
    /\ db = InitializedDb
    /\ boot = BootUp
    /\ mig_log = <<>>
    /\ xf = IdleXf
    /\ scan = NoScan
    /\ tasks = NoTasks

NextOAuth ==
    \/ \E d \in OAuthTickSteps :
          Tick(d) /\ UNCHANGED <<auth_vars, ext_vars>>
    \/ \E v \in Verifiers :
          start_flow(v) /\ UNCHANGED <<now, ticks, client_keys, request_log,
                                       last, reset_keys, auth_vars, ext_but_oauth>>
    \/ \E r \in TokenResponses :
          exchange_code(r) /\ UNCHANGED <<now, ticks, client_keys, request_log,
                                          last, reset_keys, auth_vars, ext_but_oauth>>
    \/ logout /\ UNCHANGED <<now, ticks, client_keys, request_log,
                              last, reset_keys, auth_vars, ext_but_oauth>>
    \/ authenticate_anthropic(Some(SecretOf("k1")), "m1") /\ UNCHANGED ext_vars
    \/ auth_validate /\ UNCHANGED ext_vars
    \/ auth_check_limits(NoSub) /\ UNCHANGED ext_vars
    \/ auth_is_valid /\ UNCHANGED ext_vars
    \/ auth_is_model_allowed /\ UNCHANGED ext_vars
    \/ auth_check_model_limits(NoSub) /\ UNCHANGED ext_vars
    \/ auth_extra_usage(DefaultSubscriptionState) /\ UNCHANGED ext_but_sub
    \/ \E r \in TokenResponses :
          auth_get_oauth_token_refresh(r) /\ UNCHANGED ext_but_oauth
    \/ messages_forward /\ UNCHANGED ext_vars

SpecOAuth == InitOAuth /\ [][NextOAuth]_vars

----------------------------------------------------------------------------
(* transforms/streaming.rs: the SSE transformers with usage tracking *)

(* Events of an upstream stream; message_start carries the input and cache
   tokens, message_delta the output tokens *)
MessageStart(i, cr, cw) ==
    [type |-> "message_start",
     usage |-> Some([input_tokens |-> i, output_tokens |-> 0,
                     cache_read_input_tokens |-> cr,
                     cache_creation_input_tokens |-> cw])]
MessageDelta(o) ==
    [type |-> "message_delta",
     usage |-> Some([input_tokens |-> 0, output_tokens |-> o,
                     cache_read_input_tokens |-> None,
                     cache_creation_input_tokens |-> None])]
ContentBlockDelta == [type |-> "content_block_delta", usage |-> None]
MessageStop == [type |-> "message_stop", usage |-> None]

(* What the upstream may send before it closes the stream: a whole message,
   one with two message_delta events, one cut short *)
UpstreamScripts ==
    { <<MessageStart(2, Some(1), Some(1)), ContentBlockDelta, MessageDelta(1),
        MessageStop>>,
      <<MessageStart(1, None, None), MessageDelta(1), MessageDelta(2),
        MessageStop>>,
      <<MessageStart(1, None, None), ContentBlockDelta>> }

(* add_usage(acc, usage): the running Usage, field by field *)
add_usage(acc, usage) ==
    LET opt(o) == IF IsSome(o) THEN Unwrap(o) ELSE 0
        optadd(a, b) == IF a = None /\ b = None THEN None
                        ELSE Some(opt(a) + opt(b))
    IN  [input_tokens |-> acc.input_tokens + usage.input_tokens,
         output_tokens |-> acc.output_tokens + usage.output_tokens,
         cache_read_input_tokens |->
            optadd(acc.cache_read_input_tokens, usage.cache_read_input_tokens),
         cache_creation_input_tokens |->
            optadd(acc.cache_creation_input_tokens,
                   usage.cache_creation_input_tokens)]

(* A transformer that captures usage from message_start only *)
capture_usage_StartOnly(usage_report, event) ==
    IF event.type = "message_start" /\ IsSome(event.usage)
    THEN add_usage(usage_report, Unwrap(event.usage))
    ELSE usage_report

(* The transformer on one event: capture usage from message_start and from
   message_delta *)
capture_usage(usage_report, event) ==
    IF event.type \in {"message_start", "message_delta"} /\ IsSome(event.usage)
    THEN add_usage(usage_report, Unwrap(event.usage))
    ELSE usage_report

(* A refresh that returns whatever the upstream answered *)
get_or_refresh_window_resets_AnyAnswer(cached, t, answer) ==
    LET needs_refresh ==
           \/ cached.five_hour_reset_at = None
           \/ t >= Unwrap(cached.five_hour_reset_at)
           \/ IsSome(cached.seven_day_reset_at)
                /\ t >= Unwrap(cached.seven_day_reset_at)
    IN  [asked |-> needs_refresh,
         ret |-> IF needs_refresh THEN answer ELSE cached]

(* get_or_refresh_window_resets: the cached state unless it is empty or one
   of its reset times has passed; then the upstream's answer, kept and
   returned if it carries a five-hour reset time *)
get_or_refresh_window_resets(cached, t, answer) ==
    LET needs_refresh ==
           \/ cached.five_hour_reset_at = None
           \/ t >= Unwrap(cached.five_hour_reset_at)
           \/ IsSome(cached.seven_day_reset_at)
                /\ t >= Unwrap(cached.seven_day_reset_at)
    IN  [asked |-> needs_refresh,
         ret |-> IF needs_refresh /\ IsSome(answer.five_hour_reset_at)
                 THEN answer ELSE cached]

(* messages with stream = true: the upstream answered 200 and the response
   body is the transformer over its byte stream *)
messages_forward_stream(script) ==
    /\ req.pc = "forward"
    /\ req' = [req EXCEPT !.pc = "done", !.forwarded = TRUE]
    /\ stream' = [IdleStream EXCEPT !.pc = "open",
                                    !.key_id = Unwrap(req.client_key).id,
                                    !.model = req.model,
                                    !.script = script,
                                    !.attempts = 1,
                                    !.log_len = Len(request_log)]

(* body.next() gives a chunk: every complete data line is parsed, its usage
   captured, its event translated and handed to the client *)
stream_chunk ==
    /\ stream.pc = "open"
    /\ Len(stream.seen) < Len(stream.script)
    /\ LET event == stream.script[Len(stream.seen) + 1]
       IN  stream' = [stream EXCEPT
                        !.seen = Append(@, event),
                        !.usage_report = capture_usage(@, event)]

(* An upstream error that leaves the loop as the end of the stream does *)
stream_upstream_error_Break ==
    /\ stream.pc = "open"
    /\ stream' = [stream EXCEPT !.pc = "ended", !.upstream_failed = TRUE]

(* body.next() gives Err(e): the error is yielded and the generator returns *)
stream_upstream_error ==
    /\ stream.pc = "open"
    /\ stream' = [stream EXCEPT !.pc = "done", !.upstream_failed = TRUE]

(* body.next() gives None: the loop is left *)
stream_end ==
    /\ stream.pc = "open"
    /\ Len(stream.seen) = Len(stream.script)
    /\ stream' = [stream EXCEPT !.pc = "ended"]

(* After the loop: get_or_refresh_window_resets, then record_model_usage *)
stream_record(answer) ==
    /\ stream.pc = "ended"
    /\ LET w == get_or_refresh_window_resets(state_window_resets, now, answer)
       IN  /\ record_model_usage(stream.key_id, stream.model,
                                 stream.usage_report, w.ret)
           /\ state_window_resets' = w.ret
           /\ fetched' = IF w.asked THEN Some(answer) ELSE fetched
    /\ stream' = [stream EXCEPT !.pc = "done"]

(* A disconnect after which the transformer still records what it has *)
client_disconnect_Recording ==
    /\ stream.pc \in {"open", "ended"}
    /\ record_model_usage(stream.key_id, stream.model, stream.usage_report,
                          state_window_resets)
    /\ stream' = [stream EXCEPT !.pc = "done", !.dropped = TRUE]

(* The client disconnects: the response body, which is the generator, is
   dropped at the await it is suspended in, and nothing after it runs *)
client_disconnect ==
    /\ stream.pc \in {"open", "ended"}
    /\ stream' = [stream EXCEPT !.pc = "done", !.dropped = TRUE]
    /\ UNCHANGED <<now, ticks, client_keys, request_log, last, reset_keys>>

(* Answers of the usage endpoint while a stream ends: none, or a five-hour
   reset time ahead *)
StreamSubStates(t) ==
    { DefaultSubscriptionState,
      [DefaultSubscriptionState EXCEPT !.five_hour_reset_at = Some(t + 1)] }

quota_vars == <<now, ticks, client_keys, request_log, last, reset_keys>>
key_vars == <<key_allowed_models, key_model_limits, issued>>

NextStream ==
    \/ \E d \in TickSteps : Tick(d) /\ UNCHANGED <<auth_vars, ext_vars>>
    \/ /\ stream.pc \in {"none", "done"}
       /\ authenticate_anthropic(Some(SecretOf("k1")), "m1")
       /\ UNCHANGED ext_vars
    \/ auth_validate /\ UNCHANGED ext_vars
    \/ auth_check_limits(NoSub) /\ UNCHANGED ext_vars
    \/ auth_is_valid /\ UNCHANGED ext_vars
    \/ auth_is_model_allowed /\ UNCHANGED ext_vars
    \/ auth_check_model_limits(NoSub) /\ UNCHANGED ext_vars
    \/ auth_extra_usage(DefaultSubscriptionState) /\ UNCHANGED ext_but_sub
    \/ auth_get_oauth_token("token") /\ UNCHANGED ext_vars
    \/ \E script \in UpstreamScripts :
          messages_forward_stream(script)
          /\ UNCHANGED <<quota_vars, key_vars, served, sub_vars,
                         oauth_vars, mig_vars, late_vars>>
    \/ stream_chunk
          /\ UNCHANGED <<quota_vars, key_vars, req, served, sub_vars,
                         oauth_vars, mig_vars, late_vars>>
    \/ stream_upstream_error
          /\ UNCHANGED <<quota_vars, key_vars, req, served, sub_vars,
                         oauth_vars, mig_vars, late_vars>>
    \/ stream_end
          /\ UNCHANGED <<quota_vars, key_vars, req, served, sub_vars,
                         oauth_vars, mig_vars, late_vars>>
    \/ \E answer \in StreamSubStates(now) :
          stream_record(answer)
          /\ UNCHANGED <<auth_vars, oauth_vars, mig_vars, late_vars>>
    \/ client_disconnect
          /\ UNCHANGED <<key_vars, req, served, sub_vars, oauth_vars, mig_vars,
                         late_vars>>

SpecStream == Init /\ [][NextStream]_vars

----------------------------------------------------------------------------
(* A request during which a database operation fails *)

(* The status of the response a finished request got: that of its error, or
   200 when authenticate_key and the upstream call succeeded *)
ResponseStatus(r) ==
    CASE r.error = "" -> 200
      [] r.error \in {"InvalidModel", "ModelNotAllowed"} -> ModelErrorStatus(r.error)
      [] OTHER -> StatusOf(r.error)

(* validate: get_conn or the query fails, validate returns None *)
auth_validate_db_error ==
    /\ req.pc = "validate"
    /\ req' = [AfterCheck(req, "validate", FALSE, "check_limits")
                 EXCEPT !.db_error = TRUE]
    /\ UNCHANGED <<quota_vars, key_vars, served>>

(* check_limits: get_conn fails, check_limits returns Err(e.to_string()) *)
auth_check_limits_db_error ==
    /\ req.pc = "check_limits"
    /\ req' = [AfterCheck(req, "check_limits", FALSE, "is_valid")
                 EXCEPT !.db_error = TRUE]
    /\ UNCHANGED <<quota_vars, key_vars, served>>

(* check_model_limits: get_conn fails, it returns Err(e.to_string()) *)
auth_check_model_limits_db_error ==
    /\ req.pc = "check_model_limits"
    /\ req' = [AfterCheck(req, "check_model_limits", FALSE, "extra_usage")
                 EXCEPT !.db_error = TRUE]
    /\ UNCHANGED <<quota_vars, key_vars, served>>

(* update_last_used fails: a warning is logged and get_oauth_token follows *)
auth_update_last_used_db_error(outcome) ==
    /\ req.pc = "get_oauth_token"
    /\ req' = CASE outcome = "token" ->
                     [req EXCEPT !.pc = "forward", !.db_error = TRUE]
                [] outcome = "none" ->
                     [req EXCEPT !.pc = "done", !.error = "NoAuthConfigured",
                                 !.db_error = TRUE]
                [] outcome = "error" ->
                     [req EXCEPT !.pc = "done", !.error = "OAuthError",
                                 !.db_error = TRUE]
    /\ UNCHANGED <<quota_vars, key_vars, served>>

(* messages: record_model_usage fails on get_conn: a warning is logged and
   the upstream's answer is returned *)
messages_forward_usage_db_error ==
    /\ req.pc = "forward"
    /\ req' = [req EXCEPT !.pc = "done", !.forwarded = TRUE, !.db_error = TRUE]
    /\ UNCHANGED <<quota_vars, key_vars, served>>

NextDbFault ==
    \/ authenticate_anthropic(Some(SecretOf("k1")), "m1") /\ UNCHANGED ext_vars
    \/ auth_validate /\ UNCHANGED ext_vars
    \/ auth_validate_db_error /\ UNCHANGED ext_vars
    \/ auth_check_limits(NoSub) /\ UNCHANGED ext_vars
    \/ auth_check_limits_db_error /\ UNCHANGED ext_vars
    \/ auth_is_valid /\ UNCHANGED ext_vars
    \/ auth_is_model_allowed /\ UNCHANGED ext_vars
    \/ auth_check_model_limits(NoSub) /\ UNCHANGED ext_vars
    \/ auth_check_model_limits_db_error /\ UNCHANGED ext_vars
    \/ \E u \in Utilizations : auth_extra_usage(u) /\ UNCHANGED ext_but_sub
    \/ \E t \in TokenOutcomes : auth_get_oauth_token(t) /\ UNCHANGED ext_vars
    \/ \E t \in TokenOutcomes :
          auth_update_last_used_db_error(t) /\ UNCHANGED ext_vars
    \/ messages_forward /\ UNCHANGED ext_vars
    \/ messages_forward_usage(Report3, NoSub) /\ UNCHANGED ext_vars
    \/ messages_forward_usage_db_error /\ UNCHANGED ext_vars

SpecDbFault == Init /\ [][NextDbFault]_vars

----------------------------------------------------------------------------
(* db.rs: start-ups of the binary over one database file                     *)

(* A database the code before the migration system left: auth and           *)
(* client_keys exist, schema_version does not                                *)
PreMigrationDb(n) ==
    [migrate_v1(EmptyDb).db EXCEPT !.rows["client_keys"] = n]

(* A database a release shipping the first k migrations left, holding n     *)
(* client keys and n per-model usage rows                                    *)
OlderBinaryDb(k, n) ==
    LET d == run_migrations(EmptyDb, k)
        d1 == [d EXCEPT !.rows["client_keys"] = n]
    IN  IF table_exists(d1, "key_model_usage")
        THEN [d1 EXCEPT !.rows["key_model_usage"] = n]
        ELSE d1

InitialDatabases ==
    {EmptyDb}
      \cup {PreMigrationDb(n) : n \in 0..MaxKeyRows}
      \cup {OlderBinaryDb(k, n) : k \in 1..Len(MIGRATIONS), n \in 0..MaxKeyRows}

(* init_db: run_migrations up to its loop *)
init_db_begin ==
    /\ boot.pc = "down"
    /\ boot.startups < MaxStartups
    /\ LET b == run_migrations_begin(db)
           started == Append(mig_log, <<"start", get_schema_version(db)>>)
       IN  /\ db' = b.db
           /\ boot' = [pc |-> "migrating", current |-> b.current, i |-> 1,
                       startups |-> boot.startups + 1]
           /\ mig_log' = IF b.adopted
                         THEN Append(started, <<"adopt", b.current>>)
                         ELSE started

(* The loop of run_migrations at a migration that is not pending *)
run_migrations_skip ==
    /\ boot.pc = "migrating"
    /\ boot.i <= Len(MIGRATIONS)
    /\ ~ is_pending(MIGRATIONS[boot.i], boot.current)
    /\ boot' = [boot EXCEPT !.i = @ + 1]
    /\ UNCHANGED <<db, mig_log>>

(* The loop of run_migrations at a pending migration: (migration.migrate)() *)
run_migrations_migrate ==
    /\ boot.pc = "migrating"
    /\ boot.i <= Len(MIGRATIONS)
    /\ is_pending(MIGRATIONS[boot.i], boot.current)
    /\ LET r == migrate(MIGRATIONS[boot.i], db)
       IN  /\ db' = r.db
           /\ boot' = [boot EXCEPT !.pc = IF r.ok THEN "set_version"
                                                  ELSE "failed"]
    /\ mig_log' = Append(mig_log, <<"migrate", MIGRATIONS[boot.i]>>)

(* ... then set_schema_version(migration.version), current = version *)
run_migrations_set_version ==
    /\ boot.pc = "set_version"
    /\ db' = set_schema_version(db, MIGRATIONS[boot.i])
    /\ boot' = [boot EXCEPT !.pc = "migrating",
                            !.current = MIGRATIONS[boot.i], !.i = @ + 1]
    /\ mig_log' = Append(mig_log, <<"set", MIGRATIONS[boot.i]>>)

(* run_migrations returns Ok and init_db publishes the database *)
init_db_done ==
    /\ boot.pc = "migrating"
    /\ boot.i > Len(MIGRATIONS)
    /\ boot' = [boot EXCEPT !.pc = "up"]
    /\ UNCHANGED <<db, mig_log>>

(* The process ends: it was stopped, or init_db returned an error *)
shutdown ==
    /\ boot.pc \in {"up", "failed"}
    /\ boot' = [boot EXCEPT !.pc = "down"]
    /\ UNCHANGED <<db, mig_log>>

(* client_keys.rs create: INSERT INTO client_keys *)
db_create_key ==
    /\ boot.pc = "up"
    /\ db.rows["client_keys"] < MaxKeyRows
    /\ db' = [db EXCEPT !.rows["client_keys"] = @ + 1]
    /\ UNCHANGED <<boot, mig_log>>

(* models.rs remove: DELETE FROM models WHERE id = ? *)
db_remove_model ==
    /\ boot.pc = "up"
    /\ db.rows["models"] > 0
    /\ db' = [db EXCEPT !.rows["models"] = @ - 1]
    /\ UNCHANGED <<boot, mig_log>>

InitMigrations ==
    /\ now = StartTime
    /\ ticks = 0
    /\ client_keys = [k \in KeyIds |-> NewKeyRow(SecretOf(k), StartTime)]
    /\ request_log = <<>>
    /\ last = NoOp
    /\ reset_keys = {}
    /\ key_allowed_models = {}
    /\ key_model_limits = {}
    /\ issued = KeyIds
    /\ req = IdleReq
    /\ served = 0
    /\ state_window_resets = DefaultSubscriptionState
    /\ fetched = None
    /\ verifier = None
    /\ auth_store = None
    /\ oauth_last = NoOAuthOp
    /\ stream = IdleStream
    /\ db \in InitialDatabases
    /\ boot = BootDown
    /\ mig_log = <<>>
    /\ xf = IdleXf
    /\ scan = NoScan
    /\ tasks = NoTasks

NextMigrations ==
    \/ init_db_begin /\ UNCHANGED <<quota_vars, auth_vars, ext_but_mig>>
    \/ run_migrations_skip /\ UNCHANGED <<quota_vars, auth_vars, ext_but_mig>>
    \/ run_migrations_migrate /\ UNCHANGED <<quota_vars, auth_vars, ext_but_mig>>
    \/ run_migrations_set_version
          /\ UNCHANGED <<quota_vars, auth_vars, ext_but_mig>>
    \/ init_db_done /\ UNCHANGED <<quota_vars, auth_vars, ext_but_mig>>
    \/ shutdown /\ UNCHANGED <<quota_vars, auth_vars, ext_but_mig>>
    \/ db_create_key /\ UNCHANGED <<quota_vars, auth_vars, ext_but_mig>>
    \/ db_remove_model /\ UNCHANGED <<quota_vars, auth_vars, ext_but_mig>>

SpecMigrations == InitMigrations /\ [][NextMigrations]_vars

----------------------------------------------------------------------------
----------------------------------------------------------------------------
(* transforms: the request preparer, the OpenAI adapter, tool names          *)

(* A tool name is the sequence of its pieces; "mcp_" is the prefix piece *)
ToolNames == { <<"tool">>, <<"mcp_", "tool">>, <<"mcp_", "mcp_", "tool">> }

add_mcp_prefix(name) ==
    IF name # <<>> /\ name[1] = "mcp_" THEN name ELSE <<"mcp_">> \o name

strip_mcp_prefix(name) ==
    IF name # <<>> /\ name[1] = "mcp_" THEN Tail(name) ELSE name

(* Pieces of an Anthropic request body.  system and the content of a message
   are a JSON string or an array of blocks; a string is kept as its one text
   block under kind "string" *)
Block(type, name, cc) == [type |-> type, name |-> name, cache_control |-> cc]
Text(cc) == Block("text", <<>>, cc)
ToolUse(name, cc) == Block("tool_use", name, cc)
Content(kind, blocks) == [kind |-> kind, blocks |-> blocks]
Message(role, content) == [role |-> role, content |-> content]
Tool(name, type, cc) == [name |-> name, type |-> type, cache_control |-> cc]
SystemBlock(text, cc) == [text |-> text, cache_control |-> cc]

SeqSum(s, f(_)) ==
    LET RECURSIVE upto(_)
        upto(i) == IF i = 0 THEN 0 ELSE upto(i - 1) + f(s[i])
    IN  upto(Len(s))
Flag(b) == IF b THEN 1 ELSE 0

(* count_cache_control_blocks: markers on system[], tools[] and on the
   blocks of messages[].content[] *)
count_cache_control_blocks(body) ==
    LET marked(b) == Flag(b.cache_control)
        inmsg(m) == IF m.content.kind = "array"
                    THEN SeqSum(m.content.blocks, marked) ELSE 0
    IN  (IF body.system.kind = "array"
         THEN SeqSum(body.system.blocks, marked) ELSE 0)
        + (IF body.tools.kind = "array"
           THEN SeqSum(body.tools.blocks, marked) ELSE 0)
        + SeqSum(body.messages, inmsg)

(* Insert cache_control into the last element of a non-empty array *)
MarkLast(blocks) ==
    [blocks EXCEPT ![Len(blocks)].cache_control = TRUE]

inject_tools_cache_control(body) ==
    IF \/ body.tools.kind # "array"
       \/ body.tools.blocks = <<>>
       \/ \E i \in DOMAIN body.tools.blocks : body.tools.blocks[i].cache_control
    THEN body
    ELSE [body EXCEPT !.tools.blocks = MarkLast(@)]

inject_system_cache_control(body) ==
    CASE body.system.kind = "array" /\ body.system.blocks # <<>> ->
            IF \E i \in DOMAIN body.system.blocks :
                   body.system.blocks[i].cache_control
            THEN body
            ELSE [body EXCEPT !.system.blocks = MarkLast(@)]
      [] body.system.kind = "string" ->
            [body EXCEPT !.system = Content("array", MarkLast(@.blocks))]
      [] OTHER -> body

inject_messages_cache_control(body) ==
    LET messages == body.messages
        has_cache == \E i \in DOMAIN messages :
                        /\ messages[i].content.kind = "array"
                        /\ \E j \in DOMAIN messages[i].content.blocks :
                              messages[i].content.blocks[j].cache_control
        user_indices == {i \in DOMAIN messages : messages[i].role = "user"}
        last_user == CHOOSE i \in user_indices : \A j \in user_indices : j <= i
        target_idx == CHOOSE i \in user_indices \ {last_user} :
                         \A j \in user_indices \ {last_user} : j <= i
        content == messages[target_idx].content
    IN  IF has_cache \/ Cardinality(user_indices) < 2
        THEN body
        ELSE CASE content.kind = "array" /\ content.blocks # <<>> ->
                    [body EXCEPT !.messages[target_idx].content.blocks =
                                     MarkLast(@)]
               [] content.kind = "string" ->
                    [body EXCEPT !.messages[target_idx].content =
                                     Content("array", MarkLast(@.blocks))]
               [] OTHER -> body

MAX_CACHE_CONTROL_BLOCKS == 4

(* ensure_cache_control without the early return at the limit *)
ensure_cache_control_NoLimit(body) ==
    inject_messages_cache_control(
        inject_system_cache_control(inject_tools_cache_control(body)))

ensure_cache_control(body) ==
    LET existing == count_cache_control_blocks(body)
        b1 == inject_tools_cache_control(body)
        remaining1 == (MAX_CACHE_CONTROL_BLOCKS - existing)
                         - (count_cache_control_blocks(b1) - existing)
        b2 == IF remaining1 > 0 THEN inject_system_cache_control(b1) ELSE b1
        remaining2 == remaining1 - (count_cache_control_blocks(b2)
                                      - count_cache_control_blocks(b1))
    IN  IF existing >= MAX_CACHE_CONTROL_BLOCKS
        THEN body
        ELSE IF remaining2 > 0 THEN inject_messages_cache_control(b2) ELSE b2

(* disable_thinking_if_forced that looks at tool_choice "tool" only *)
disable_thinking_if_forced_ToolOnly(body) ==
    IF IsSome(body.tool_choice) /\ Unwrap(body.tool_choice).type = "tool"
    THEN [body EXCEPT !.thinking = None]
    ELSE body

disable_thinking_if_forced(body) ==
    IF IsSome(body.tool_choice)
          /\ Unwrap(body.tool_choice).type \in {"any", "tool"}
    THEN [body EXCEPT !.thinking = None]
    ELSE body

(* inject_fake_user_id: a missing, empty or malformed metadata.user_id is
   replaced by a generated one, which is_valid_user_id accepts *)
inject_fake_user_id(body) ==
    IF body.user_id = "valid" THEN body ELSE [body EXCEPT !.user_id = "valid"]

transform_request_tool_names(body) ==
    LET tool(t) == IF t.type # "" THEN t
                   ELSE [t EXCEPT !.name = add_mcp_prefix(@)]
        block(b) == IF b.type = "tool_use"
                    THEN [b EXCEPT !.name = add_mcp_prefix(@)] ELSE b
        msg(m) == IF m.content.kind = "array"
                  THEN [m EXCEPT !.content.blocks =
                           [i \in DOMAIN @ |-> block(@[i])]]
                  ELSE m
        choice(tc) == IF /\ IsSome(tc)
                         /\ Unwrap(tc).type = "tool"
                         /\ Unwrap(tc).name # <<>>
                      THEN Some([Unwrap(tc) EXCEPT !.name = add_mcp_prefix(@)])
                      ELSE tc
    IN  [body EXCEPT
           !.tools = IF @.kind = "array"
                     THEN [@ EXCEPT !.blocks = [i \in DOMAIN @ |-> tool(@[i])]]
                     ELSE @,
           !.tool_choice = choice(@),
           !.messages = [i \in DOMAIN @ |-> msg(@[i])]]

(* sanitize_system: the text blocks of a system array lose the name of the
   other client *)
sanitize_system(system) ==
    IF system.kind = "array"
    THEN [system EXCEPT !.blocks =
            [i \in DOMAIN @ |->
                IF @[i].text = "OpenCode"
                THEN [@[i] EXCEPT !.text = "Claude Code"] ELSE @[i]]]
    ELSE system

inject_system_message(body) ==
    LET prefix == SystemBlock("SYSTEM_PREFIX", FALSE)
        new_system ==
           CASE body.system.kind = "absent" -> Content("array", <<prefix>>)
             [] OTHER -> Content("array", <<prefix>> \o body.system.blocks)
    IN  [body EXCEPT !.system = sanitize_system(new_system)]

sanitize_system_only(body) ==
    IF body.system.kind = "absent" THEN body
    ELSE [body EXCEPT !.system = sanitize_system(@)]

prepare_anthropic_request(body, cloak) ==
    LET b1 == [body EXCEPT !.betas = FALSE]
        b2 == disable_thinking_if_forced(b1)
        b3 == IF cloak THEN inject_fake_user_id(b2) ELSE b2
        b4 == transform_request_tool_names(b3)
        b5 == IF cloak THEN inject_system_message(b4)
                       ELSE sanitize_system_only(b4)
        b6 == ensure_cache_control(b5)
    IN  [b6 EXCEPT !.context_management = FALSE]

prepare_count_tokens_request(body, cloak) ==
    LET b1 == [body EXCEPT !.betas = FALSE]
        b2 == IF cloak THEN inject_system_message(b1)
                       ELSE sanitize_system_only(b1)
    IN  ensure_cache_control(b2)


(* transform_response_tool_names: the tool_use blocks of the response lose
   one leading "mcp_" *)
transform_response_tool_names(content) ==
    [i \in DOMAIN content |->
        IF content[i].type = "tool_use"
        THEN [content[i] EXCEPT !.name = strip_mcp_prefix(@)]
        ELSE content[i]]

(* openai_compat.rs.  A model string is its base and, if it ends in
   "(suffix)", the suffix *)
ModelString(base, suffix) == [base |-> base, suffix |-> suffix]
DEFAULT_MODEL == ModelString("claude-sonnet-4-5", None)
DEFAULT_MAX_TOKENS == 16000
OPUS_4_6_MAX_OUTPUT == 128000
DEFAULT_MAX_OUTPUT == 64000
AdaptiveFloor == 32000
BudgetHeadroom == 1000

is_opus_4_6(model) == model.base = "claude-opus-4-6"

(* str::parse::<u32> on the decimal texts that occur as efforts *)
U32Text ==
    ("0" :> 0) @@ ("63000" :> 63000) @@ ("63500" :> 63500)
       @@ ("64000" :> 64000) @@ ("100000" :> 100000)
parse_u32(text) ==
    IF text \in DOMAIN U32Text THEN Some(U32Text[text]) ELSE None

parse_model_suffix(model) ==
    IF /\ IsSome(model.suffix)
       /\ \/ Unwrap(model.suffix) \in
                {"none", "off", "disabled", "low", "minimal", "medium", "med",
                 "high", "xhigh", "max", "auto"}
          \/ IsSome(parse_u32(Unwrap(model.suffix)))
    THEN [base_model |-> ModelString(model.base, None),
          suffix_effort |-> model.suffix]
    ELSE [base_model |-> model, suffix_effort |-> None]

(* build_thinking_config on an effort word or a decimal number *)
build_thinking_config(model, effort) ==
    IF effort \in {"none", "off", "disabled"}
    THEN [thinking |-> None, output_config |-> None]
    ELSE IF is_opus_4_6(model) /\ parse_u32(effort) = Some(0)
    THEN [thinking |-> None, output_config |-> None]
    ELSE IF is_opus_4_6(model)
    THEN [thinking |-> Some([type |-> "adaptive", budget_tokens |-> None]),
          output_config |->
             Some(CASE effort \in {"low", "minimal"} -> "low"
                    [] effort \in {"medium", "med", "auto"} -> "medium"
                    [] effort = "high" -> "high"
                    [] effort \in {"xhigh", "max"} -> "max"
                    [] IsSome(parse_u32(effort)) ->
                          LET n == Unwrap(parse_u32(effort))
                          IN  CASE n <= 2048 -> "low"
                                [] n <= 16384 -> "medium"
                                [] n <= 49152 -> "high"
                                [] OTHER -> "max"
                    [] OTHER -> "high")]
    ELSE [thinking |->
             Some([type |-> "enabled",
                   budget_tokens |->
                      Some(CASE effort \in {"low", "minimal"} -> 1024
                             [] effort \in {"medium", "med"} -> 8192
                             [] effort = "high" -> 32000
                             [] effort \in {"xhigh", "max"} -> 64000
                             [] effort = "auto" -> 16000
                             [] IsSome(parse_u32(effort)) ->
                                   Unwrap(parse_u32(effort))
                             [] OTHER -> 8192)]),
          output_config |-> None]

(* max_tokens capped at the model's ceiling without the adaptive floor *)
max_tokens_for_NoFloor(base_model, thinking, requested) ==
    Min(IF IsSome(requested) THEN Unwrap(requested) ELSE DEFAULT_MAX_TOKENS,
        IF is_opus_4_6(base_model) THEN OPUS_4_6_MAX_OUTPUT
                                   ELSE DEFAULT_MAX_OUTPUT)

(* transform_openai_request: the max_tokens the upstream request carries *)
max_tokens_for(base_model, thinking, requested) ==
    LET model_max_output == IF is_opus_4_6(base_model)
                            THEN OPUS_4_6_MAX_OUTPUT ELSE DEFAULT_MAX_OUTPUT
        m0 == IF IsSome(requested) THEN Unwrap(requested)
                                   ELSE DEFAULT_MAX_TOKENS
        budget == IF IsSome(thinking) THEN Unwrap(thinking).budget_tokens
                                      ELSE None
        m1 == IF IsSome(budget) /\ m0 <= Unwrap(budget)
              THEN Min(Unwrap(budget) + BudgetHeadroom, model_max_output)
              ELSE m0
        m2 == IF is_opus_4_6(base_model) /\ IsSome(thinking)
                    /\ m1 < AdaptiveFloor
              THEN AdaptiveFloor ELSE m1
    IN  Min(m2, model_max_output)

(* An OpenAI message: its role and the names of its tool calls *)
OpenAIMessage(role, tool_calls) == [role |-> role, tool_calls |-> tool_calls]

transform_openai_request(oreq) ==
    LET convert(m) ==
           IF m.role = "tool"
           THEN Message("user", Content("array",
                           << Block("tool_result", <<>>, FALSE) >>))
           ELSE Message(m.role, Content("array",
                           <<Text(FALSE)>> \o
                           [i \in DOMAIN m.tool_calls |->
                               ToolUse(m.tool_calls[i], FALSE)]))
        messages == SelectSeq(oreq.messages,
                              LAMBDA m : m.role \in {"user", "assistant", "tool"})
        has_system == \E i \in DOMAIN oreq.messages :
                         oreq.messages[i].role = "system"
        raw_model == IF IsSome(oreq.model) THEN Unwrap(oreq.model)
                                           ELSE DEFAULT_MODEL
        parsed == parse_model_suffix(raw_model)
        effort == IF IsSome(oreq.reasoning_effort) THEN oreq.reasoning_effort
                                                   ELSE parsed.suffix_effort
        config == IF IsSome(effort)
                  THEN build_thinking_config(parsed.base_model, Unwrap(effort))
                  ELSE [thinking |-> None, output_config |-> None]
    IN  [model |-> parsed.base_model,
         max_tokens |-> max_tokens_for(parsed.base_model, config.thinking,
                                       oreq.max_tokens),
         messages |-> [i \in DOMAIN messages |-> convert(messages[i])],
         system |-> IF has_system
                    THEN Content("string", <<SystemBlock("sys", FALSE)>>)
                    ELSE Content("absent", <<>>),
         tools |-> IF IsSome(oreq.tools)
                   THEN Content("array",
                           [i \in DOMAIN Unwrap(oreq.tools) |->
                               Tool(Unwrap(oreq.tools)[i], "", FALSE)])
                   ELSE Content("absent", <<>>),
         thinking |-> config.thinking,
         output_config |-> config.output_config,
         tool_choice |-> None,
         betas |-> FALSE,
         user_id |-> "absent",
         context_management |-> FALSE]

(* streaming.rs: the Anthropic-to-OpenAI translator on one event *)
map_stop_reason_Identity(reason) == reason
map_stop_reason(reason) ==
    CASE reason = "end_turn" -> "stop"
      [] reason = "tool_use" -> "tool_calls"
      [] reason = "max_tokens" -> "length"
      [] OTHER -> reason

(* An upstream event: its type, the type and name of its content block, the
   field its delta carries and the delta's stop_reason *)
Event(type, block_type, name, delta, stop_reason) ==
    [type |-> type, block_type |-> block_type, name |-> name,
     delta |-> delta, stop_reason |-> stop_reason]
UpstreamEvents ==
    { Event("message_start", "", <<>>, "", None),
      Event("ping", "", <<>>, "", None),
      Event("content_block_start", "text", <<>>, "", None),
      Event("content_block_start", "tool_use", <<"mcp_", "tool">>, "", None),
      Event("content_block_delta", "", <<>>, "text", None),
      Event("content_block_delta", "", <<>>, "thinking", None),
      Event("content_block_delta", "", <<>>, "partial_json", None),
      Event("content_block_stop", "", <<>>, "", None),
      Event("message_delta", "", <<>>, "", None),
      Event("message_delta", "", <<>>, "", Some("end_turn")),
      Event("message_delta", "", <<>>, "", Some("tool_use")),
      Event("message_delta", "", <<>>, "", Some("max_tokens")),
      Event("message_delta", "", <<>>, "", Some("refusal")),
      Event("message_stop", "", <<>>, "", None) }

(* A frame handed to the client *)
Chunk(kind, name, index, finish_reason) ==
    [kind |-> kind, name |-> name, index |-> index,
     finish_reason |-> finish_reason]
Done == Chunk("[DONE]", <<>>, 0, None)
KeepAlive == Chunk(": keep-alive", <<>>, 0, None)

(* The frames one event yields, given the translator's tool-call state *)
translate_event(event, sse) ==
    CASE event.type = "content_block_start" /\ event.block_type = "tool_use" ->
            << Chunk("tool_calls", strip_mcp_prefix(event.name),
                     sse.tool_call_index, None) >>
      [] event.type = "content_block_delta" /\ event.delta = "thinking" ->
            << Chunk("reasoning_content", <<>>, 0, None) >>
      [] event.type = "content_block_delta" /\ event.delta = "text" ->
            << Chunk("content", <<>>, 0, None) >>
      [] event.type = "content_block_delta" /\ event.delta = "partial_json" ->
            << Chunk("tool_calls", <<>>, sse.tool_call_index, None) >>
      [] event.type = "message_delta" /\ IsSome(event.stop_reason) ->
            << Chunk("finish", <<>>, 0,
                     Some(map_stop_reason(Unwrap(event.stop_reason)))) >>
      [] event.type = "message_stop" -> << Done >>
      [] OTHER -> << >>

(* A translator that counts every content_block_stop *)
translator_state_EveryStop(event, sse) ==
    CASE event.type = "content_block_start" /\ event.block_type = "tool_use" ->
            [sse EXCEPT !.in_tool_call = TRUE]
      [] event.type = "content_block_stop" ->
            [tool_call_index |-> sse.tool_call_index + 1,
             in_tool_call |-> FALSE]
      [] OTHER -> sse

(* current_tool_call_id and tool_call_index after one event *)
translator_state(event, sse) ==
    CASE event.type = "content_block_start" /\ event.block_type = "tool_use" ->
            [sse EXCEPT !.in_tool_call = TRUE]
      [] event.type = "content_block_stop" /\ sse.in_tool_call ->
            [tool_call_index |-> sse.tool_call_index + 1,
             in_tool_call |-> FALSE]
      [] OTHER -> sse


(* The request bodies a client may send *)
AbsentField == Content("absent", <<>>)
Systems ==
    { AbsentField,
      Content("string", <<SystemBlock("sys", FALSE)>>),
      Content("array", <<SystemBlock("OpenCode", FALSE)>>),
      Content("array", <<SystemBlock("sys", TRUE), SystemBlock("sys", TRUE)>>) }
ToolLists ==
    { AbsentField,
      Content("array", <<Tool(<<"tool">>, "", FALSE)>>),
      Content("array", <<Tool(<<"mcp_", "tool">>, "", FALSE),
                         Tool(<<"web_search">>, "web_search_20250305", FALSE)>>),
      Content("array", <<Tool(<<"mcp_", "mcp_", "tool">>, "", TRUE),
                         Tool(<<"tool">>, "", TRUE)>>) }
MessageLists ==
    { << Message("user", Content("string", <<Text(FALSE)>>)) >>,
      << Message("user", Content("string", <<Text(FALSE)>>)),
         Message("assistant", Content("array", <<ToolUse(<<"tool">>, FALSE)>>)),
         Message("user", Content("array", <<Text(FALSE)>>)) >>,
      << Message("user", Content("array", <<Text(TRUE)>>)),
         Message("assistant", Content("array", <<Text(FALSE)>>)),
         Message("user", Content("array", <<Text(FALSE)>>)) >>,
      << Message("user", Content("array", <<Text(TRUE), Text(TRUE)>>)),
         Message("assistant",
                 Content("array", <<ToolUse(<<"mcp_", "tool">>, TRUE)>>)),
         Message("user", Content("string", <<Text(FALSE)>>)) >> }
ToolChoices ==
    { None, Some([type |-> "auto", name |-> <<>>]),
      Some([type |-> "any", name |-> <<>>]),
      Some([type |-> "tool", name |-> <<"tool">>]) }
Thinkings ==
    { None, Some([type |-> "enabled", budget_tokens |-> Some(1024)]) }
Bodies ==
    { [model |-> DEFAULT_MODEL, max_tokens |-> DEFAULT_MAX_TOKENS,
       messages |-> m, system |-> s, tools |-> t, thinking |-> th,
       output_config |-> None, tool_choice |-> tc,
       betas |-> x, user_id |-> IF x THEN "invalid" ELSE "valid",
       context_management |-> x] :
         m \in MessageLists, s \in Systems, t \in ToolLists, th \in Thinkings,
         tc \in ToolChoices, x \in BOOLEAN }

(* The chat requests a client may send *)
OpenAIRequests ==
    { [model |-> mo, max_tokens |-> mt, reasoning_effort |-> re,
       tools |-> t, messages |-> m] :
         mo \in { None,
                  Some(ModelString("claude-opus-4-6", Some("max"))),
                  Some(ModelString("claude-opus-4-6", None)),
                  Some(ModelString("claude-opus-4-6", Some("bogus"))),
                  Some(ModelString("claude-sonnet-4-5", Some("high"))),
                  Some(ModelString("claude-sonnet-4-5", Some("none"))) },
         mt \in { None, Some(1000), Some(40000), Some(200000) },
         re \in { None, Some("low") },
         t \in { None, Some(<< <<"tool">> >>),
                 Some(<< <<"mcp_", "tool">>, <<"mcp_", "mcp_", "tool">> >>) },
         m \in { << OpenAIMessage("user", <<>>) >>,
                 << OpenAIMessage("system", <<>>),
                    OpenAIMessage("user", <<>>),
                    OpenAIMessage("assistant", << <<"tool">> >>),
                    OpenAIMessage("tool", <<>>),
                    OpenAIMessage("user", <<>>) >> } }

(* The names of the user-defined tools of a body *)
UserToolNames(body) ==
    { body.tools.blocks[i].name :
         i \in { j \in DOMAIN body.tools.blocks : body.tools.blocks[j].type = "" } }

(* The content blocks the upstream may answer a prepared request with *)
Replies(body) ==
    { <<Text(FALSE)>> }
       \cup { <<Text(FALSE), ToolUse(n, FALSE)>> : n \in UserToolNames(body) }

(* How many events of one stream, and keep-alive ticks, the model follows *)
MaxEvents == 3
MaxKeepAlives == 1

(* POST /v1/messages up to the upstream call *)
messages_prepare(body, cloak) ==
    /\ xf.op = "none"
    /\ xf' = [xf EXCEPT !.op = "messages", !.pc = "sent", !.cloak = cloak,
                        !.input = Some(body),
                        !.upstream = Some(prepare_anthropic_request(body, cloak))]

(* POST /v1/messages/count_tokens up to the upstream call *)
count_tokens_prepare(body, cloak) ==
    /\ xf.op = "none"
    /\ xf' = [xf EXCEPT !.op = "count_tokens", !.pc = "sent", !.cloak = cloak,
                        !.input = Some(body),
                        !.upstream =
                           Some(prepare_count_tokens_request(body, cloak))]

(* POST /v1/chat/completions up to the upstream call *)
chat_completions_prepare(oreq, cloak) ==
    /\ xf.op = "none"
    /\ xf' = [xf EXCEPT !.op = "chat", !.pc = "sent", !.cloak = cloak,
                        !.input = Some(oreq),
                        !.upstream =
                           Some(prepare_anthropic_request(
                                   transform_openai_request(oreq), cloak))]

(* The upstream answers in one piece: both routes strip the tool names *)
respond_buffered(content) ==
    /\ xf.pc = "sent"
    /\ xf.op \in {"messages", "chat"}
    /\ xf' = [xf EXCEPT !.pc = "done", !.reply = content,
                        !.out = transform_response_tool_names(content)]

(* The count_tokens answer goes back as it came *)
respond_count_tokens ==
    /\ xf.pc = "sent"
    /\ xf.op = "count_tokens"
    /\ xf' = [xf EXCEPT !.pc = "done"]

(* stream_strip_mcp_prefix_with_usage on one event: the line is passed on,
   a tool_use content_block_start with its name stripped *)
stream_strip_event(event) ==
    << Chunk(event.type,
             IF event.type = "content_block_start"
                   /\ event.block_type = "tool_use"
             THEN strip_mcp_prefix(event.name) ELSE event.name,
             0, event.stop_reason) >>

(* One data line of the upstream stream goes through the route's transformer *)
stream_event(event, limit) ==
    /\ xf.pc \in {"sent", "streaming"}
    /\ xf.op \in {"messages", "chat"}
    /\ Len(xf.reply) < limit
    /\ xf' = [xf EXCEPT
                !.pc = "streaming",
                !.reply = Append(@, event),
                !.out = @ \o (IF xf.op = "chat"
                              THEN translate_event(event, xf.sse)
                              ELSE stream_strip_event(event)),
                !.sse = translator_state(event, @)]

(* The keep-alive timer fires while no data is pending *)
stream_keep_alive ==
    /\ xf.pc \in {"sent", "streaming"}
    /\ xf.op \in {"messages", "chat"}
    /\ xf.keep_alives < MaxKeepAlives
    /\ xf' = [xf EXCEPT !.pc = "streaming", !.out = Append(@, KeepAlive),
                        !.keep_alives = @ + 1]

(* The upstream closes the stream *)
stream_close ==
    /\ xf.pc = "streaming"
    /\ xf' = [xf EXCEPT !.pc = "done"]

(* The handler has returned *)
handler_return ==
    /\ xf.pc = "done"
    /\ xf' = IdleXf

(* The tool_use content_block_start events the upstream may send for a body *)
ToolStarts(body) ==
    { Event("content_block_start", "tool_use", n, "", None) :
         n \in UserToolNames(body) }

xf_frame == <<quota_vars, auth_vars, ext_but_late, scan, tasks>>

NextPrepare ==
    \/ \E body \in Bodies, cloak \in BOOLEAN :
          messages_prepare(body, cloak) /\ UNCHANGED xf_frame
    \/ \E body \in Bodies, cloak \in BOOLEAN :
          count_tokens_prepare(body, cloak) /\ UNCHANGED xf_frame
    \/ \E oreq \in OpenAIRequests, cloak \in BOOLEAN :
          chat_completions_prepare(oreq, cloak) /\ UNCHANGED xf_frame
    \/ /\ IsSome(xf.upstream)
       /\ \E content \in Replies(Unwrap(xf.upstream)) :
             respond_buffered(content) /\ UNCHANGED xf_frame
    \/ respond_count_tokens /\ UNCHANGED xf_frame
    \/ /\ IsSome(xf.upstream)
       /\ \E event \in ToolStarts(Unwrap(xf.upstream)) :
             stream_event(event, 1) /\ UNCHANGED xf_frame
    \/ stream_close /\ UNCHANGED xf_frame
    \/ handler_return /\ UNCHANGED xf_frame

SpecPrepare == Init /\ [][NextPrepare]_vars

(* A streamed chat request whose upstream answer is any run of events *)
StreamedChat ==
    [model |-> None, max_tokens |-> None, reasoning_effort |-> None,
     tools |-> Some(<< <<"tool">> >>),
     messages |-> << OpenAIMessage("user", <<>>) >>]

NextTranslate ==
    \/ chat_completions_prepare(StreamedChat, TRUE) /\ UNCHANGED xf_frame
    \/ \E event \in UpstreamEvents :
          stream_event(event, MaxEvents) /\ UNCHANGED xf_frame
    \/ stream_keep_alive /\ UNCHANGED xf_frame
    \/ stream_close /\ UNCHANGED xf_frame

SpecTranslate == Init /\ [][NextTranslate]_vars

----------------------------------------------------------------------------
(* Vocabulary of the claims *)

Windows == {"five_hour", "weekly"}
ResetAt(row, w) ==
    IF w = "five_hour" THEN row.five_hour_reset_at ELSE row.weekly_reset_at
CountFrom(row, w) ==
    CASE w = "five_hour" -> row.five_hour_count_from
      [] w = "weekly" -> row.weekly_count_from
      [] w = "total" -> row.total_count_from
UsageOf(u, w) ==
    CASE w = "five_hour" -> u.five_hour_tokens
      [] w = "weekly" -> u.weekly_tokens
      [] w = "total" -> u.total_tokens

(* Which windows a reset kind names *)
Covers(kind, w) ==
    \/ kind = "All"
    \/ kind = "FiveHour" /\ w = "five_hour"
    \/ kind = "Weekly" /\ w = "weekly"
    \/ kind = "Total" /\ w = "total"

(* The ledger, read directly: the sum of cost_microdollars over the rows of
   key k created at or after `from` *)
RECURSIVE SumOfRows(_, _)
SumOfRows(rows, S) ==
    IF S = {} THEN 0
    ELSE LET i == CHOOSE x \in S : TRUE
         IN  rows[i].cost_microdollars + SumOfRows(rows, S \ {i})
LedgerCost(rows, k, from) ==
    SumOfRows(rows, {i \in 1..Len(rows) :
                        rows[i].key_id = k /\ rows[i].created_at >= from})

(* The state of a window at time t *)
WindowStateAt(row, w, t) ==
    IF ResetAt(row, w) = 0 THEN "Unset"
    ELSE IF ResetAt(row, w) > t THEN "Fresh" ELSE "Expired"

(* The step just taken is operation `op` (the clock did not move) *)
StepOf(op) == last'.op = op /\ ticks' = ticks

IsPrefix(a, b) == Len(a) <= Len(b) /\ \A i \in 1..Len(a) : a[i] = b[i]

----------------------------------------------------------------------------
(* C3, as stated: with no reset_usage on the key, get_usage returns for each
   window the sum of cost_microdollars of the key's rows with
   created_at >= count_from. *)
C3_Original ==
    \A k \in KeyIds : k \notin reset_keys =>
        \A w \in Windows \cup {"total"} :
            UsageOf(get_usage(k), w)
                = LedgerCost(request_log, k, CountFrom(client_keys[k], w))

(* C3, amended: with no reset_usage on the key, get_usage returns the ledger
   sum under count_from for the total window and for every five-hour or weekly
   window that has not expired, and 0 for an expired window
   (0 < reset_at <= now). *)
C3_UsageIsLedger ==
    \A k \in KeyIds : k \notin reset_keys =>
        /\ get_usage(k).total_tokens
              = LedgerCost(request_log, k, client_keys[k].total_count_from)
        /\ \A w \in Windows :
              UsageOf(get_usage(k), w)
                = IF WindowStateAt(client_keys[k], w, now) = "Expired" THEN 0
                  ELSE LedgerCost(request_log, k, CountFrom(client_keys[k], w))

C3_Witness ==
    \E k \in KeyIds :
        /\ k \notin reset_keys
        /\ WindowStateAt(client_keys[k], "five_hour", now) = "Unset"
        /\ WindowStateAt(client_keys[k], "weekly", now) = "Expired"
        /\ get_usage(k).five_hour_tokens > 0
        /\ get_usage(k).weekly_tokens = 0
        /\ get_usage(k).total_tokens = get_usage(k).five_hour_tokens

----------------------------------------------------------------------------
(* C4, as stated: for any key with five_hour_reset_at <= now, check_limits
   moves five_hour_count_from to the old five_hour_reset_at and sets
   five_hour_reset_at to a time later than now. *)
C4_Original ==
    [][ \A k \in KeyIds :
          (StepOf("check_limits") /\ last'.key = k
             /\ client_keys[k].five_hour_reset_at <= now)
          => /\ client_keys'[k].five_hour_count_from
                  = client_keys[k].five_hour_reset_at
             /\ client_keys'[k].five_hour_reset_at > now ]_vars

(* C4, amended: for any key with 0 < five_hour_reset_at <= now, check_limits
   moves five_hour_count_from to the old five_hour_reset_at and sets
   five_hour_reset_at to the subscription reset time if that is present and
   later than now, else to now + 5 h; a key whose five_hour_reset_at is 0 keeps
   its five_hour_count_from and is not given a reset time. *)
C4_WindowBoundary ==
    [][ \A k \in KeyIds :
          (StepOf("check_limits") /\ last'.key = k)
          => /\ (0 < client_keys[k].five_hour_reset_at
                   /\ client_keys[k].five_hour_reset_at <= now)
                => /\ client_keys'[k].five_hour_count_from
                        = client_keys[k].five_hour_reset_at
                   /\ client_keys'[k].five_hour_reset_at > now
                   /\ client_keys'[k].five_hour_reset_at
                        = IF last'.sub # None /\ last'.sub[1] > now
                          THEN last'.sub[1] ELSE now + five_hour_ms
             /\ client_keys[k].five_hour_reset_at = 0
                => /\ client_keys'[k].five_hour_count_from
                        = client_keys[k].five_hour_count_from
                   /\ client_keys'[k].five_hour_reset_at = 0 ]_vars

C4_Witness ==
    /\ last.op = "check_limits"
    /\ last.sub = None
    /\ client_keys[last.key].five_hour_count_from > 0
    /\ client_keys[last.key].five_hour_count_from < now
    /\ client_keys[last.key].five_hour_reset_at = now + five_hour_ms
    /\ last.key \notin reset_keys

----------------------------------------------------------------------------
(* C5, as stated: a window is Fresh (reset_at > now) or Expired
   (reset_at <= now); window maintenance moves Expired to Fresh and no
   operation, reset_usage and re-sync included, puts a Fresh window into the
   Expired state. *)
C5_Original ==
    [][ ticks' = ticks =>
          \A k \in KeyIds, w \in Windows :
              ResetAt(client_keys[k], w) > now
              => ResetAt(client_keys'[k], w) > now ]_vars

(* C5, amended: a window is Unset (reset_at = 0), Fresh (reset_at > now) or
   Expired (0 < reset_at <= now). The only changes of state an operation makes
   are: window maintenance (in check_limits and record_model_usage) moves an
   Expired window to Fresh, record_model_usage may start an Unset window, and
   reset_usage moves the window it names to Unset. No operation puts a window
   into the Expired state; re-sync keeps a Fresh window Fresh. *)
C5_WindowStates ==
    [][ ticks' = ticks =>
          \A k \in KeyIds, w \in Windows :
            LET before == WindowStateAt(client_keys[k], w, now)
                after == WindowStateAt(client_keys'[k], w, now)
                maintained ==
                    /\ last'.key = k
                    /\ last'.op \in {"check_limits", "record_model_usage"}
                wasReset ==
                    /\ last'.key = k /\ last'.op = "reset_usage"
                    /\ Covers(last'.kind, w)
            IN  /\ after = "Expired" => before = "Expired" /\ ~maintained
                /\ (before = "Expired" /\ maintained) => after = "Fresh"
                /\ (before = "Fresh" /\ after # "Fresh") => wasReset
                /\ (before = "Unset" /\ after # "Unset")
                      => last'.key = k /\ last'.op = "record_model_usage"
                /\ wasReset => after = "Unset" ]_vars

C5_Witness ==
    /\ last.op = "check_limits"
    /\ last.sub # None
    /\ client_keys[last.key].weekly_count_from > 0
    /\ WindowStateAt(client_keys[last.key], "weekly", now) = "Fresh"
    /\ WindowStateAt(client_keys[last.key], "five_hour", now) = "Fresh"
    /\ client_keys[last.key].five_hour_reset_at = last.sub[1]

----------------------------------------------------------------------------
(* C6: every five-hour and weekly window of every key has
   count_from <= reset_at whenever reset_at # 0. *)
C6_CountFromBeforeResetAt ==
    \A k \in KeyIds, w \in Windows :
        ResetAt(client_keys[k], w) # 0
        => CountFrom(client_keys[k], w) <= ResetAt(client_keys[k], w)

C6_Witness ==
    \E k \in KeyIds :
        /\ k \in reset_keys
        /\ client_keys[k].five_hour_count_from > 0
        /\ client_keys[k].five_hour_reset_at > client_keys[k].five_hour_count_from
        /\ client_keys[k].weekly_reset_at # 0
        /\ client_keys[k].weekly_count_from = client_keys[k].weekly_reset_at - 1

----------------------------------------------------------------------------
(* C7: after reset_usage(kind), until further usage is recorded, get_usage
   returns 0 for every window kind names. *)
C7_Original ==
    last.op = "reset_usage" =>
        \A w \in Windows \cup {"total"} :
            Covers(last.kind, w) => UsageOf(get_usage(last.key), w) = 0

----------------------------------------------------------------------------
(* C8: reset_usage(kind) changes only the window kind names: the usage,
   count_from and reset_at of the key's other windows, the rest of its row,
   every other key's row and the ledger are as before. *)
C8_ResetFrame ==
    [][ StepOf("reset_usage") =>
          LET k == last'.key
              kind == last'.kind
              old == client_keys[k]
              new == client_keys'[k]
              u == TokenUsage(request_log, k, old, now)
              v == TokenUsage(request_log', k, new, now')
          IN  /\ \A j \in KeyIds \ {k} : client_keys'[j] = client_keys[j]
              /\ request_log' = request_log
              /\ \A w \in Windows \cup {"total"} :
                   ~Covers(kind, w) =>
                      /\ CountFrom(new, w) = CountFrom(old, w)
                      /\ UsageOf(v, w) = UsageOf(u, w)
              /\ \A w \in Windows :
                   ~Covers(kind, w) => ResetAt(new, w) = ResetAt(old, w)
              /\ new.key = old.key /\ new.enabled = old.enabled
              /\ new.five_hour_limit = old.five_hour_limit
              /\ new.weekly_limit = old.weekly_limit
              /\ new.total_limit = old.total_limit ]_vars

C8_Witness ==
    /\ last.op = "reset_usage"
    /\ last.kind = "FiveHour"
    /\ client_keys[last.key].five_hour_count_from = now
    /\ get_usage(last.key).five_hour_tokens = 0
    /\ get_usage(last.key).weekly_tokens > 0
    /\ get_usage(last.key).total_tokens > 0

----------------------------------------------------------------------------
(* C9, as stated: request_log is append-only: every row ever appended is
   still present, unchanged, after any operation. *)
C9_Original ==
    [][ IsPrefix(request_log, request_log') ]_vars

(* C9, amended: no operation of the quota engine (check_limits,
   record_model_usage, reset_usage, window maintenance, set_limits) deletes or
   updates a ledger row; the one operation that removes rows is the admin
   DELETE /usage-history, which empties the table. *)
C9_AppendOnlyButClear ==
    [][ \/ IsPrefix(request_log, request_log')
        \/ StepOf("delete_usage_history") /\ request_log' = <<>> ]_vars

C9_Witness ==
    /\ last.op = "reset_usage"
    /\ last.kind = "All"
    /\ \E i \in 1..Len(request_log) :
          /\ request_log[i].key_id = last.key
          /\ request_log[i].cost_microdollars > 0
          /\ request_log[i].created_at < client_keys[last.key].total_count_from

----------------------------------------------------------------------------
(* The limit of a window *)
LimitOf(row, w) ==
    CASE w = "five_hour" -> row.five_hour_limit
      [] w = "weekly" -> row.weekly_limit
      [] w = "total" -> row.total_limit

(* The limit of window w is reached: it is set, and the ledger, summed from the
   window's count_from, has reached it *)
LimitReached(rows, k, row, w) ==
    /\ IsSome(LimitOf(row, w))
    /\ LedgerCost(rows, k, CountFrom(row, w)) >= Unwrap(LimitOf(row, w))

(* C2: check_limits reports a limit as exceeded if and only if one of the
   key's three limits is set and the sum of cost_microdollars over the key's
   rows with created_at >= that window's count_from is >= the limit; a limit
   of None never rejects; of several limits reached the five-hour one is
   reported before the weekly one before the total one. *)
C2_LimitVerdict ==
    [][ \A k \in KeyIds :
          (StepOf("check_limits") /\ last'.key = k) =>
            LET row == client_keys'[k]
                over(w) == LimitReached(request_log, k, row, w)
            IN  /\ last'.res # "ok" <=> \E w \in Windows \cup {"total"} : over(w)
                /\ last'.res = "five_hour" <=> over("five_hour")
                /\ last'.res = "weekly" <=> ~over("five_hour") /\ over("weekly")
                /\ last'.res = "total"
                      <=> ~over("five_hour") /\ ~over("weekly") /\ over("total")
                /\ \A w \in Windows \cup {"total"} :
                      LimitOf(row, w) = None =>
                         last'.res # w ]_vars

C2_Witness ==
    /\ last.op = "check_limits"
    /\ last.res = "weekly"
    /\ IsSome(client_keys[last.key].five_hour_limit)
    /\ LedgerCost(request_log, last.key,
                  client_keys[last.key].five_hour_count_from) = 0
    /\ LimitReached(request_log, last.key, client_keys[last.key], "weekly")
    /\ LimitReached(request_log, last.key, client_keys[last.key], "total")

----------------------------------------------------------------------------
(* C1: the checks of a request run in the fixed order client-key validation,
   window maintenance and global limits, model existence, whitelist, per-model
   limits, extra-usage gate; the first check that fails ends the request: no
   later check is evaluated and the request is not forwarded upstream. *)
C1_OrderedChecks ==
    /\ [](/\ IsPrefix(req.checks, CheckOrder)
          /\ req.error # "" => req.pc = "done" /\ ~req.forwarded
          /\ (req.forwarded \/ req.pc = "forward")
                => req.checks = CheckOrder /\ req.error = "")
    /\ [][ served' = served =>
            /\ req.error # "" => req' = req
            /\ req'.checks # req.checks =>
                 LET c == req'.checks[Len(req'.checks)]
                     id == req'.client_key[1].id
                     failed ==
                        CASE c = "validate" ->
                               ~\E i \in DOMAIN client_keys :
                                   /\ client_keys[i].enabled
                                   /\ client_keys[i].key = req.key[1]
                          [] c = "check_limits" -> last'.res # "ok"
                          [] c = "is_valid" -> req.model \notin EnabledModels
                          [] c = "is_model_allowed" ->
                               /\ \E p \in key_allowed_models : p[1] = id
                               /\ <<id, req.model>> \notin key_allowed_models
                          [] OTHER -> req'.error # ""
                 IN  /\ req'.checks = Append(req.checks, c)
                     /\ failed => /\ req'.error = ErrorOf(c)
                                  /\ req'.pc = "done"
                     /\ ~failed => /\ req'.error = ""
                                   /\ req'.pc # "done" ]_vars

C1_Witness ==
    /\ req.pc = "done"
    /\ req.error = "RateLimitExceeded"
    /\ ~req.forwarded
    /\ req.checks = SubSeq(CheckOrder, 1, 5)
    /\ served = 2

----------------------------------------------------------------------------
(* C10: validate(presented) returns a key only if a client_keys row whose
   secret equals the presented string exists with enabled = 1 at that moment;
   a disabled or a deleted key never validates, and its request gets 401. *)
C10_ValidateOnlyEnabled ==
    [][ (req.pc = "validate" /\ req'.pc # "validate") =>
          LET live == {id \in DOMAIN client_keys :
                          /\ client_keys[id].enabled
                          /\ client_keys[id].key = req.key[1]}
          IN  /\ live = {} => /\ req'.client_key = None
                              /\ req'.error = "InvalidApiKey"
                              /\ StatusOf(req'.error) = 401
                              /\ req'.pc = "done"
              /\ live # {} => /\ req'.client_key # None
                              /\ req'.client_key[1].id \in live
                              /\ req'.error = "" ]_vars

C10_Witness ==
    /\ req.pc = "done"
    /\ req.error = "InvalidApiKey"
    /\ \E id \in DOMAIN client_keys :
          ~client_keys[id].enabled /\ Some(client_keys[id].key) = req.key
    /\ \E id \in issued : id \notin DOMAIN client_keys

----------------------------------------------------------------------------
(* C11: if key_allowed_models has at least one row for the key, a request for
   a model that is not among them is rejected with ModelNotAllowed (403)
   before any upstream call is made; if the key has no rows, the whitelist
   check passes for every enabled model. *)
C11_Whitelist ==
    /\ [](req.error = "ModelNotAllowed" =>
             /\ req.pc = "done"
             /\ ~req.forwarded
             /\ ModelErrorStatus(req.error) = 403)
    /\ [][ (req.pc = "is_model_allowed" /\ req'.pc # "is_model_allowed") =>
             LET id == req.client_key[1].id
                 rows == {p \in key_allowed_models : p[1] = id}
             IN  /\ (rows # {} /\ <<id, req.model>> \notin rows) =>
                        /\ req'.error = "ModelNotAllowed"
                        /\ req'.pc = "done"
                        /\ ~req'.forwarded
                 /\ rows = {} =>
                        /\ req.model \in EnabledModels
                        /\ req'.error = ""
                        /\ req'.pc = "check_model_limits"
                 /\ <<id, req.model>> \in rows =>
                        /\ req'.error = ""
                        /\ req'.pc = "check_model_limits" ]_vars

C11_Witness ==
    /\ req.pc = "done"
    /\ req.error = "ModelNotAllowed"
    /\ ~req.forwarded
    /\ req.model \in EnabledModels
    /\ \E p \in key_allowed_models : p[1] = req.client_key[1].id

----------------------------------------------------------------------------
(* C12: a request on a key with allow_extra_usage = false is rejected with a
   rate-limit error (429) whenever the subscription state the upstream
   answers at that moment (not the cached one) reports a five-hour or a
   seven-day utilization >= 100 %; a key with allow_extra_usage = true is
   never rejected by this gate. *)
C12_ExtraUsageGate ==
    [][ (req.pc = "extra_usage" /\ req'.pc # "extra_usage") =>
          LET allow == req.client_key[1].allow_extra_usage
              over(u) == u # None /\ u[1] >= 100
          IN  /\ ~allow =>
                    /\ fetched' # None
                    /\ (over(fetched'[1].five_hour_utilization)
                          \/ over(fetched'[1].seven_day_utilization))
                        <=> (/\ req'.error = "RateLimitExceeded"
                             /\ StatusOf(req'.error) = 429
                             /\ req'.pc = "done"
                             /\ ~req'.forwarded)
              /\ allow => /\ req'.error = ""
                          /\ req'.pc = "get_oauth_token"
                          /\ UNCHANGED sub_vars ]_vars

C12_Witness ==
    /\ req.pc = "done"
    /\ req.error = "RateLimitExceeded"
    /\ req.checks = CheckOrder
    /\ fetched # None
    /\ fetched[1].seven_day_utilization = Some(101)
    /\ IsSome(state_window_resets.five_hour_reset_at)
    /\ state_window_resets.seven_day_utilization # Some(101)

----------------------------------------------------------------------------
(* C13: when a refresh is due (the stored OAuth token is within 60 s of its
   expiry) and the upstream answers the refresh with invalid_grant, the
   stored credential is deleted, refresh_if_needed returns None, and the
   request is answered 401 "No authentication configured" without being
   forwarded. *)
C13_InvalidGrant ==
    /\ [](req.error = "NoAuthConfigured" => req.pc = "done" /\ ~req.forwarded)
    /\ [][ (/\ req.pc = "get_oauth_token"
            /\ req'.pc # "get_oauth_token"
            /\ auth_store # None
            /\ auth_store[1].type = "oauth"
            /\ now + 60 * 1000 >= auth_store[1].expires
            /\ oauth_last'.response = Some([kind |-> "invalid_grant"]))
           => /\ oauth_last'.contacted
              /\ auth_store' = None
              /\ oauth_last'.res = "none"
              /\ req'.error = "NoAuthConfigured"
              /\ StatusOf(req'.error) = 401
              /\ MessageOf(req'.error) = "No authentication configured"
              /\ req'.pc = "done"
              /\ ~req'.forwarded ]_vars

C13_Witness ==
    /\ req.pc = "done"
    /\ req.error = "NoAuthConfigured"
    /\ ~req.forwarded
    /\ oauth_last.op = "refresh_if_needed"
    /\ oauth_last.response = Some([kind |-> "invalid_grant"])
    /\ auth_store = None
    /\ ticks > 0

----------------------------------------------------------------------------
(* C14: the OAuth manager is either Idle (no verifier) or
   PendingExchange(verifier); start_flow moves it to PendingExchange;
   exchange_code succeeds only in PendingExchange, and on success it stores
   an OAuth credential and returns the manager to Idle; exchange_code in Idle
   fails without contacting the upstream and without changing the stored
   credential. *)
OAuthStep(op) == oauth_last'.op = op /\ oauth_vars' # oauth_vars

C14_OAuthStateMachine ==
    /\ [](verifier = None \/ \E v \in Verifiers : verifier = Some(v))
    /\ [][ OAuthStep("start_flow") =>
              /\ verifier' # None
              /\ auth_store' = auth_store ]_vars
    /\ [][ OAuthStep("exchange_code") =>
              /\ oauth_last'.res = "ok" =>
                    /\ verifier # None
                    /\ oauth_last'.contacted
                    /\ auth_store' # None
                    /\ auth_store'[1].type = "oauth"
                    /\ auth_store'[1].expires
                          = now + oauth_last'.response[1].expires_in * 1000
                    /\ verifier' = None
              /\ verifier = None =>
                    /\ oauth_last'.res = "error"
                    /\ ~oauth_last'.contacted
                    /\ auth_store' = auth_store
                    /\ verifier' = None ]_vars

C14_Witness ==
    /\ oauth_last.op = "exchange_code"
    /\ oauth_last.res = "ok"
    /\ verifier = None
    /\ auth_store # None
    /\ auth_store[1].type = "oauth"

----------------------------------------------------------------------------
(* The tokens of a counter field that the events of one type carry *)
RECURSIVE SeenTokens(_, _, _)
SeenTokens(events, type, field) ==
    IF events = <<>> THEN 0
    ELSE LET e == Head(events)
         IN  (IF e.type = type /\ e.usage # None THEN e.usage[1][field] ELSE 0)
             + SeenTokens(Tail(events), type, field)

(* The tokens of an optional field that the events of one type carry *)
RECURSIVE SeenCacheTokens(_, _, _)
SeenCacheTokens(events, type, field) ==
    IF events = <<>> THEN 0
    ELSE LET e == Head(events)
             v == IF e.type = type /\ e.usage # None THEN e.usage[1][field]
                  ELSE None
         IN  (IF v = None THEN 0 ELSE v[1])
             + SeenCacheTokens(Tail(events), type, field)

(* C15: for a streamed request whose upstream stream runs to completion,
   exactly one request_log row is appended, and only after the last upstream
   event has been translated; the row carries the input and cache tokens seen
   in message_start and the output tokens seen in message_delta. *)
C15_StreamRecordedOnce ==
    /\ [](stream.pc = "done" /\ ~stream.upstream_failed /\ ~stream.dropped =>
             /\ stream.seen = stream.script
             /\ Len(request_log) = stream.log_len + 1
             /\ LET row == request_log[Len(request_log)]
                    sent == stream.script
                IN  /\ row.key_id = stream.key_id
                    /\ row.model = stream.model
                    /\ row.input_tokens =
                          SeenTokens(sent, "message_start", "input_tokens")
                    /\ row.cache_read_tokens =
                          SeenCacheTokens(sent, "message_start",
                                          "cache_read_input_tokens")
                    /\ row.cache_write_tokens =
                          SeenCacheTokens(sent, "message_start",
                                          "cache_creation_input_tokens")
                    /\ row.output_tokens =
                          SeenTokens(sent, "message_delta", "output_tokens"))
    /\ [][ request_log' # request_log =>
              /\ stream.pc = "ended"
              /\ stream.seen = stream.script
              /\ stream'.pc = "done"
              /\ Len(request_log') = Len(request_log) + 1 ]_vars

C15_Witness ==
    /\ stream.pc = "done"
    /\ ~stream.upstream_failed
    /\ ~stream.dropped
    /\ Len(stream.script) = 4
    /\ Len(request_log) = 1
    /\ request_log[1].output_tokens = 3
    /\ request_log[1].input_tokens = 1

----------------------------------------------------------------------------
(* C16: when the client disconnects during a stream, the task is dropped and
   usage recording does not occur: no request_log row is ever appended for
   that request. *)
C16_DisconnectNotRecorded ==
    /\ [](stream.dropped =>
             /\ stream.pc = "done"
             /\ Len(request_log) = stream.log_len)
    /\ [][ stream.dropped /\ stream'.dropped =>
              /\ request_log' = request_log
              /\ stream' = stream ]_vars

C16_Witness ==
    /\ stream.dropped
    /\ stream.seen = stream.script
    /\ stream.usage_report.output_tokens > 0
    /\ request_log = <<>>

----------------------------------------------------------------------------
(* C17, as the specification states it: when a stream is aborted mid-flight,
   the usage accumulated up to the last observed message_delta is recorded in
   request_log. *)
C17_Original ==
    (/\ stream.upstream_failed
     /\ stream.pc = "done"
     /\ \E i \in DOMAIN stream.seen : stream.seen[i].type = "message_delta")
    => /\ Len(request_log) = stream.log_len + 1
       /\ request_log[Len(request_log)].output_tokens
             = stream.usage_report.output_tokens

(* C17: when the upstream stream fails mid-flight, the transformer hands the
   error to the client and returns: no request_log row is appended for that
   request, whatever usage it had accumulated, and the request is not
   retried. *)
C17_AbortedStreamNotRecorded ==
    /\ [](stream.upstream_failed =>
             /\ stream.pc = "done"
             /\ Len(request_log) = stream.log_len
             /\ stream.attempts = 1)
    /\ [][ stream.upstream_failed /\ stream'.upstream_failed =>
              /\ request_log' = request_log
              /\ stream' = stream ]_vars

C17_Witness ==
    /\ stream.upstream_failed
    /\ \E i \in DOMAIN stream.seen : stream.seen[i].type = "message_delta"
    /\ stream.usage_report.output_tokens > 0
    /\ stream.usage_report.input_tokens > 0
    /\ request_log = <<>>

----------------------------------------------------------------------------
(* C18: if a database operation fails while a request is being authorized or
   served, the client receives HTTP 500 and no request_log row is appended
   for that request. *)
C18_Original ==
    /\ [](req.pc = "done" /\ req.db_error => ResponseStatus(req) = 500)
    /\ [][ req.db_error /\ req'.db_error => request_log' = request_log ]_vars

----------------------------------------------------------------------------
(* The history of run_migrations: the start-ups and what each applied *)
StartIndexes(log) == {i \in DOMAIN log : log[i][1] = "start"}
LastStartIndex(log) ==
    CHOOSE i \in StartIndexes(log) : \A j \in StartIndexes(log) : j <= i
(* The last event of the start-up that begins at index s *)
SegmentEnd(log, s) ==
    IF \E j \in StartIndexes(log) : j > s
    THEN (CHOOSE j \in StartIndexes(log) :
             j > s /\ \A k \in StartIndexes(log) : k > s => j <= k) - 1
    ELSE Len(log)
(* The versions whose migration function the start-up at index s invoked *)
Applied(log, s) ==
    {log[i][2] : i \in {k \in s..SegmentEnd(log, s) : log[k][1] = "migrate"}}
(* The schema_version the start-up at index s found, adoption included *)
RecordedAt(log, s) ==
    IF s < Len(log) /\ log[s + 1][1] = "adopt" THEN log[s + 1][2] ELSE log[s][2]
(* The start-up at index s has run to its end *)
Completed(log, s) == s < LastStartIndex(log) \/ boot.pc \in {"up", "down"}
MigrationVersions == {MIGRATIONS[i] : i \in DOMAIN MIGRATIONS}
IsPreMigration(d) ==
    /\ table_exists(d, "auth")
    /\ ~ table_exists(d, "schema_version") \/ d.schema_version = <<>>

(* C19: across any sequence of start-ups every migration whose version
   exceeds the recorded schema_version is applied exactly once, in ascending
   version order, and schema_version is set to that version right after it;
   schema_version never decreases; a pre-migration database (auth present, no
   version recorded) is adopted at version 1 and migrate_v1 is not run on
   it. *)
C19_MigrationLadder ==
    /\ [](/\ \A i, j \in DOMAIN mig_log :
                i < j /\ mig_log[i][1] = "migrate" /\ mig_log[j][1] = "migrate"
                   => mig_log[i][2] < mig_log[j][2]
          /\ \A i \in DOMAIN mig_log :
                mig_log[i][1] = "migrate" =>
                   IF i < Len(mig_log)
                   THEN mig_log[i + 1] = <<"set", mig_log[i][2]>>
                   ELSE boot.pc = "set_version"
          /\ \A i \in DOMAIN mig_log :
                mig_log[i][1] = "set" =>
                   i > 1 /\ mig_log[i - 1] = <<"migrate", mig_log[i][2]>>
          /\ \A s \in StartIndexes(mig_log) :
                Completed(mig_log, s) =>
                   Applied(mig_log, s) =
                      {v \in MigrationVersions : v > RecordedAt(mig_log, s)}
          /\ (\E i \in DOMAIN mig_log : mig_log[i][1] = "adopt") =>
                \A i \in DOMAIN mig_log : mig_log[i] # <<"migrate", 1>>
          /\ boot.pc = "up" => get_schema_version(db) = Len(MIGRATIONS))
    /\ [][ /\ get_schema_version(db') >= get_schema_version(db)
           /\ \A v \in MigrationVersions :
                 /\ mig_log' = Append(mig_log, <<"migrate", v>>)
                       => v > get_schema_version(db)
                 /\ mig_log' = Append(mig_log, <<"set", v>>)
                       => get_schema_version(db') = v
           /\ boot.pc = "down" /\ boot'.pc = "migrating" /\ IsPreMigration(db)
                 => /\ get_schema_version(db') = 1
                    /\ mig_log' = mig_log \o << <<"start", 0>>, <<"adopt", 1>> >>
                    /\ \A t \in DOMAIN db.tables :
                          /\ db'.tables[t] = db.tables[t]
                          /\ db'.rows[t] = db.rows[t] ]_vars

C19_Witness ==
    /\ boot.pc = "up"
    /\ boot.startups = 2
    /\ \E i \in DOMAIN mig_log : mig_log[i] = <<"adopt", 1>>
    /\ \A v \in MigrationVersions \ {1} :
          \E i \in DOMAIN mig_log : mig_log[i] = <<"set", v>>
    /\ db.rows["client_keys"] > 0

----------------------------------------------------------------------------
(* C20: the migration ladder is idempotent: a start-up over a database that
   already ran every migration invokes no migration function and leaves the
   tables, the row counts and schema_version as they were, and the schema it
   ends with is the schema of a freshly initialized database. *)
C20_LadderIdempotent ==
    /\ [](/\ run_migrations(InitializedDb, Len(MIGRATIONS)) = InitializedDb
          /\ /\ boot.pc = "up"
             /\ mig_log # <<>>
             /\ mig_log[LastStartIndex(mig_log)][2] = Len(MIGRATIONS)
             => /\ Applied(mig_log, LastStartIndex(mig_log)) = {}
                /\ db.tables = InitializedDb.tables
                /\ db.schema_version = InitializedDb.schema_version)
    /\ [][ /\ boot.pc \in {"down", "migrating", "set_version"}
           /\ get_schema_version(db) = Len(MIGRATIONS)
           => /\ db' = db
              /\ Len(mig_log') > Len(mig_log)
                    => mig_log'[Len(mig_log')][1] = "start" ]_vars

C20_Witness ==
    /\ boot.pc = "up"
    /\ boot.startups = 2
    /\ mig_log[LastStartIndex(mig_log)] = <<"start", Len(MIGRATIONS)>>
    /\ LastStartIndex(mig_log) = Len(mig_log)
    /\ db.rows["client_keys"] > 0
    /\ db.rows["models"] < SeedModelCount

----------------------------------------------------------------------------
(* The body the preparer was given: the client's own body, or, on the chat
   route, the body the adapter made of the client's request *)
PreparerInput ==
    IF xf.op = "chat" THEN transform_openai_request(Unwrap(xf.input))
    ELSE Unwrap(xf.input)

Prepared == xf.op # "none"
MarkersIn == count_cache_control_blocks(PreparerInput)
MarkersOut == count_cache_control_blocks(Unwrap(xf.upstream))

(* C21, as stated: no request produced by the preparer contains more than
   four cache_control markers. *)
C21_NeverMoreThanFour ==
    Prepared => MarkersOut <= MAX_CACHE_CONTROL_BLOCKS

(* C21: the preparer never adds a marker beyond the fourth: a body that is
   given with fewer than four markers leaves with at most four and no fewer
   than it had, and a body given with four or more leaves with exactly the
   markers it had. *)
C21_CacheControlBudget ==
    Prepared =>
       /\ MarkersIn <= MarkersOut
       /\ MarkersIn < MAX_CACHE_CONTROL_BLOCKS
             => MarkersOut <= MAX_CACHE_CONTROL_BLOCKS
       /\ MarkersIn >= MAX_CACHE_CONTROL_BLOCKS => MarkersOut = MarkersIn

(* three markers given, tools and system both unmarked: only the tools get
   the fourth *)
C21_Witness ==
    /\ Prepared
    /\ xf.op \in {"messages", "count_tokens"}
    /\ MarkersIn = MAX_CACHE_CONTROL_BLOCKS - 1
    /\ MarkersOut = MAX_CACHE_CONTROL_BLOCKS
    /\ PreparerInput.tools.kind = "array"
    /\ PreparerInput.system.kind = "array"
    /\ \A i \in DOMAIN PreparerInput.system.blocks :
          ~PreparerInput.system.blocks[i].cache_control

----------------------------------------------------------------------------
ForcedToolChoice(body) ==
    /\ IsSome(body.tool_choice)
    /\ Unwrap(body.tool_choice).type \in {"any", "tool"}

ThinkingWithForcedTool(body) ==
    IsSome(body.thinking) /\ ForcedToolChoice(body)

(* C22, as stated: after prepare_anthropic_request or
   prepare_count_tokens_request no request has both a thinking field and a
   tool_choice of type any or tool. *)
C22_NoPreparedRequestThinksForced ==
    Prepared => ~ThinkingWithForcedTool(Unwrap(xf.upstream))

(* C22: after prepare_anthropic_request no request has both a thinking field
   and a tool_choice of type any or tool, and a request whose tool_choice
   forces nothing keeps the thinking field it had; prepare_count_tokens_request
   leaves thinking and tool_choice as they were given. *)
C22_ThinkingExclusion ==
    Prepared =>
       /\ xf.op \in {"messages", "chat"} =>
             /\ ~ThinkingWithForcedTool(Unwrap(xf.upstream))
             /\ ~ForcedToolChoice(PreparerInput) =>
                   Unwrap(xf.upstream).thinking = PreparerInput.thinking
       /\ xf.op = "count_tokens" =>
             /\ Unwrap(xf.upstream).thinking = PreparerInput.thinking
             /\ Unwrap(xf.upstream).tool_choice = PreparerInput.tool_choice

C22_Witness ==
    /\ xf.op = "messages"
    /\ IsSome(PreparerInput.thinking)
    /\ IsSome(PreparerInput.tool_choice)
    /\ Unwrap(PreparerInput.tool_choice).type = "any"
    /\ Unwrap(xf.upstream).thinking = None

----------------------------------------------------------------------------
HasMcpPrefix(name) == name # <<>> /\ name[1] = "mcp_"

(* The tool names of a body that the request rewriting is about *)
RequestToolNames(body) ==
    UserToolNames(body)
       \cup (IF IsSome(body.tool_choice)
                   /\ Unwrap(body.tool_choice).type = "tool"
             THEN { Unwrap(body.tool_choice).name } ELSE {})
       \cup { body.messages[i].content.blocks[j].name :
                 <<i, j>> \in
                    { p \in (DOMAIN body.messages) \X (1 .. 3) :
                         /\ body.messages[p[1]].content.kind = "array"
                         /\ p[2] \in DOMAIN body.messages[p[1]].content.blocks
                         /\ body.messages[p[1]].content.blocks[p[2]].type
                               = "tool_use" } }

(* The tool names in what went back to the client so far *)
ResponseToolNames == { xf.out[i].name : i \in DOMAIN xf.out } \ { <<>> }

(* On the routes that rewrite, every user-defined tool name of the request
   reaches the upstream with the prefix *)
RequestNamesPrefixed ==
    xf.op \in {"messages", "chat"} =>
       \A n \in RequestToolNames(Unwrap(xf.upstream)) : HasMcpPrefix(n)

(* C23: on the routes that answer with content (messages and chat
   completions) every user-defined tool name of the request reaches the
   upstream carrying the mcp_ prefix, and no tool name in the buffered or
   streamed response returned to the client carries it. *)
C23_ToolNamesRoundTrip ==
    /\ RequestNamesPrefixed
    /\ xf.op \in {"messages", "chat"} =>
          \A n \in ResponseToolNames : ~HasMcpPrefix(n)

----------------------------------------------------------------------------
(* The finish_reason the claim gives for a stop_reason *)
FinishReasonFor(stop_reason) ==
    CASE stop_reason = "end_turn" -> "stop"
      [] stop_reason = "tool_use" -> "tool_calls"
      [] stop_reason = "max_tokens" -> "length"
      [] OTHER -> stop_reason

(* The frames the claim expects for a run of upstream events, in order, as
   pairs of a kind and a finish_reason *)
RECURSIVE ExpectedFrames(_)
ExpectedFrames(events) ==
    IF events = <<>> THEN <<>>
    ELSE LET e == Head(events)
             here ==
                CASE e.type = "content_block_delta" /\ e.delta = "text" ->
                        << <<"content", None>> >>
                  [] e.type = "message_delta" /\ IsSome(e.stop_reason) ->
                        << <<"finish",
                             Some(FinishReasonFor(Unwrap(e.stop_reason)))>> >>
                  [] e.type = "message_stop" -> << <<"[DONE]", None>> >>
                  [] OTHER -> <<>>
         IN  here \o ExpectedFrames(Tail(events))

(* The content, terminal and [DONE] frames sent to the client, in order *)
RECURSIVE SentFrames(_)
SentFrames(out) ==
    IF out = <<>> THEN <<>>
    ELSE (IF Head(out).kind \in {"content", "finish", "[DONE]"}
          THEN << <<Head(out).kind, Head(out).finish_reason>> >>
          ELSE <<>>) \o SentFrames(Tail(out))

(* C24: for any upstream event sequence the Anthropic-to-OpenAI translator
   emits its chunks in upstream order: nothing for message_start, one content
   chunk per text delta, one terminal chunk with the mapped finish_reason
   (end_turn to stop, tool_use to tool_calls, max_tokens to length, others
   unchanged) per message_delta that carries a stop_reason, and exactly one
   [DONE] frame per message_stop, which follows the terminal chunk as the
   message_stop follows the message_delta. *)
C24_TranslatorOrder ==
    xf.op = "chat" => SentFrames(xf.out) = ExpectedFrames(xf.reply)

C24_Witness ==
    /\ xf.op = "chat"
    /\ Len(xf.reply) = MaxEvents
    /\ xf.reply[1].type = "message_start"
    /\ SentFrames(xf.out)
          = << <<"finish", Some("tool_calls")>>, <<"[DONE]", None>> >>
    /\ xf.keep_alives > 0

----------------------------------------------------------------------------
(* A chat request for "claude-opus-4-6(max)" with no max_tokens of its own
   (and no reasoning_effort, which would take priority over the suffix) *)
OpusMaxRequest ==
    /\ xf.op = "chat"
    /\ Unwrap(xf.input).model
          = Some(ModelString("claude-opus-4-6", Some("max")))
    /\ Unwrap(xf.input).max_tokens = None
    /\ Unwrap(xf.input).reasoning_effort = None

OpusMaxUpstream(max_tokens) ==
    /\ Unwrap(xf.upstream).model = ModelString("claude-opus-4-6", None)
    /\ Unwrap(xf.upstream).thinking
          = Some([type |-> "adaptive", budget_tokens |-> None])
    /\ Unwrap(xf.upstream).output_config = Some("max")
    /\ Unwrap(xf.upstream).max_tokens = max_tokens

(* C25, as stated: for an OpenAI request with model "claude-opus-4-6(max)"
   and no explicit max_tokens the upstream receives model "claude-opus-4-6",
   thinking {type: adaptive}, output_config {effort: max} and
   max_tokens 128000. *)
C25_OpusMaxGets128000 ==
    OpusMaxRequest => OpusMaxUpstream(128000)

(* C25: for an OpenAI request with model "claude-opus-4-6(max)" and no
   explicit max_tokens the upstream receives model "claude-opus-4-6",
   thinking {type: adaptive}, output_config {effort: max} and
   max_tokens 32000: the default of 16000 raised to the adaptive floor. *)
C25_OpusMaxGets32000 ==
    OpusMaxRequest => OpusMaxUpstream(32000)

C25_Witness ==
    /\ OpusMaxRequest
    /\ xf.pc = "sent"
    /\ Unwrap(xf.upstream).max_tokens = 32000
    /\ Unwrap(xf.upstream).output_config = Some("max")

----------------------------------------------------------------------------
(* client_keys.rs: validate, row by row *)

(* The orders in which SELECT ... WHERE enabled = 1 may return the rows (the
   query has no ORDER BY) *)
EnabledRows(keys) == {id \in DOMAIN keys : keys[id].enabled}
RowOrders(keys) ==
    { order \in [1 .. Cardinality(EnabledRows(keys)) -> EnabledRows(keys)] :
         \A i, j \in DOMAIN order : order[i] = order[j] => i = j }

(* A loop that returns at the first row whose secret matches *)
RECURSIVE validate_rows_EarlyReturn(_, _, _, _, _, _)
validate_rows_EarlyReturn(keys, order, key, i, result, compared) ==
    IF i > Len(order) \/ IsSome(result)
    THEN [result |-> result, compared |-> compared]
    ELSE validate_rows_EarlyReturn(keys, order, key, i + 1,
            IF keys[order[i]].key = key THEN Some(order[i]) ELSE result,
            compared + 1)

(* validate: while let Ok(Some(row)) = rows.next(): every fetched row is
   compared with ct_eq; a match sets result and the loop goes on *)
RECURSIVE validate_rows(_, _, _, _, _, _)
validate_rows(keys, order, key, i, result, compared) ==
    IF i > Len(order)
    THEN [result |-> result, compared |-> compared]
    ELSE validate_rows(keys, order, key, i + 1,
            IF keys[order[i]].key = key THEN Some(order[i]) ELSE result,
            compared + 1)

(* One call of validate(key), the rows coming in the given order *)
validate_call(key, order) ==
    /\ order \in RowOrders(client_keys)
    /\ LET r == validate_rows(client_keys, order, key, 1, None, 0)
       IN  scan' = [presented |-> key, order |-> order,
                    result |-> r.result, compared |-> r.compared]

PresentedSecrets == {"sk-bogus"} \cup {SecretOf(k) : k \in KeyIds}

NextValidate ==
    \/ \E id \in KeyIds : create(id) /\ UNCHANGED ext_vars
    \/ \E id \in KeyIds, b \in BOOLEAN : set_enabled(id, b) /\ UNCHANGED ext_vars
    \/ \E id \in KeyIds : delete(id) /\ UNCHANGED ext_vars
    \/ \E key \in PresentedSecrets : \E order \in RowOrders(client_keys) :
          validate_call(key, order)
          /\ UNCHANGED <<quota_vars, auth_vars, ext_but_late, xf, tasks>>

SpecValidate == InitAuth /\ [][NextValidate]_vars

(* C26: validate compares the presented key against every enabled row and
   keeps iterating after a match: each call fetches and compares as many rows
   as there are enabled keys, whether or not, and wherever, a row matches; its
   result is the enabled row that holds the presented secret, if there is
   one. *)
C26_ValidateScansEveryRow ==
    [][ scan' # scan =>
           /\ Len(scan'.order) = Cardinality(EnabledRows(client_keys))
           /\ scan'.compared = Cardinality(EnabledRows(client_keys))
           /\ scan'.result = validate(client_keys, scan'.presented) ]_vars

(* a match on the first of two rows, and the second row compared all the
   same *)
C26_Witness ==
    /\ scan.compared = 2
    /\ IsSome(scan.result)
    /\ scan.order[1] = Unwrap(scan.result)

----------------------------------------------------------------------------
(* rate_limits.rs, statement by statement: requests on one key run as
   concurrent tasks; each database statement is one step, and a task may be
   overtaken between any two of its statements *)

TaskIds == {"a", "b"}
RaceKey == "k1"
RaceModel == "m1"

(* What the handler got from get_or_refresh_window_resets at time t *)
RaceSub(t) == [five_hour_reset_at |-> Some(t + 1), seven_day_reset_at |-> None]

(* maybe_reset_expired_windows, its UPDATE: the columns it writes, computed
   from the row its SELECT returned, laid over the row as it is now *)
MaintenanceWrite(cur, snap, t, window_resets) ==
    LET new == maybe_reset_expired_windows(snap, t, window_resets)
        expired ==
           \/ snap.five_hour_reset_at > 0 /\ t >= snap.five_hour_reset_at
           \/ snap.weekly_reset_at > 0 /\ t >= snap.weekly_reset_at
    IN  IF expired
        THEN [cur EXCEPT !.five_hour_reset_at = new.five_hour_reset_at,
                         !.weekly_reset_at = new.weekly_reset_at,
                         !.five_hour_count_from = new.five_hour_count_from,
                         !.weekly_count_from = new.weekly_count_from]
        ELSE IF new.five_hour_reset_at # snap.five_hour_reset_at
                   \/ new.weekly_reset_at # snap.weekly_reset_at
        THEN [cur EXCEPT !.five_hour_reset_at = new.five_hour_reset_at,
                         !.weekly_reset_at = new.weekly_reset_at]
        ELSE cur

(* A request arrives: authenticate_key calls check_limits, which reads the
   clock *)
task_begin(i) ==
    /\ tasks[i].pc = "idle"
    /\ tasks' = [tasks EXCEPT ![i] =
                    [IdleTask EXCEPT !.pc = "check_select", !.t = now,
                                     !.sub = Some(RaceSub(now))]]
    /\ UNCHANGED quota_vars

(* maybe_reset_expired_windows: SELECT the window columns *)
task_maintenance_select(i) ==
    /\ tasks[i].pc \in {"check_select", "record_select"}
    /\ tasks' = [tasks EXCEPT ![i] =
                    [@ EXCEPT !.pc = IF @ = "check_select" THEN "check_update"
                                     ELSE "record_update",
                              !.snap = Some(client_keys[RaceKey])]]
    /\ UNCHANGED quota_vars

(* maybe_reset_expired_windows: UPDATE, and the WindowState it returns
   (check_limits keeps it, record_model_usage drops it) *)
task_maintenance_update(i) ==
    /\ tasks[i].pc \in {"check_update", "record_update"}
    /\ LET task == tasks[i]
           snap == Unwrap(task.snap)
       IN  /\ client_keys' =
                 [client_keys EXCEPT ![RaceKey] =
                     MaintenanceWrite(@, snap, task.t, Unwrap(task.sub))]
           /\ tasks' = [tasks EXCEPT ![i] =
                 [@ EXCEPT !.pc = IF @ = "check_update" THEN "check_aggregate"
                                  ELSE "record_init",
                           !.ws = IF task.pc = "check_update"
                                  THEN Some(WindowState(
                                          maybe_reset_expired_windows(
                                             snap, task.t, Unwrap(task.sub))))
                                  ELSE @]]
    /\ UNCHANGED <<now, ticks, request_log, last, reset_keys>>

(* check_limits: read the limits, aggregate the ledger, give the verdict *)
task_check_aggregate(i) ==
    /\ tasks[i].pc = "check_aggregate"
    /\ LET c == aggregate_usage_costs(request_log, RaceKey,
                                      Unwrap(tasks[i].ws))
           verdict == LimitVerdict(client_keys[RaceKey], c)
       IN  tasks' = [tasks EXCEPT ![i] =
                 [@ EXCEPT !.pc = IF verdict = "ok" THEN "forward"
                                  ELSE "rejected",
                           !.usage = Some(c),
                           !.rows_seen = Len(request_log),
                           !.verdict = verdict]]
    /\ UNCHANGED quota_vars

(* The upstream answers; the handler calls record_model_usage, which reads
   the clock *)
task_forward(i, report) ==
    /\ tasks[i].pc = "forward"
    /\ tasks' = [tasks EXCEPT ![i] =
                    [@ EXCEPT !.pc = "record_select", !.t = now,
                              !.report = Some(report)]]
    /\ UNCHANGED quota_vars

(* record_model_usage: initialize the reset timestamps if not yet set *)
task_record_init(i) ==
    /\ tasks[i].pc = "record_init"
    /\ client_keys' = [client_keys EXCEPT ![RaceKey] =
                          InitResetTimestamps(@, tasks[i].t,
                                              Unwrap(tasks[i].sub))]
    /\ tasks' = [tasks EXCEPT ![i].pc = "record_insert"]
    /\ UNCHANGED <<now, ticks, request_log, last, reset_keys>>

(* The row record_model_usage inserts *)
LogRow(task) ==
    LET report == Unwrap(task.report)
        opt(o) == IF IsSome(o) THEN Unwrap(o) ELSE 0
    IN  [key_id |-> RaceKey, model |-> RaceModel,
         input_tokens |-> report.input_tokens,
         output_tokens |-> report.output_tokens,
         cache_read_tokens |-> opt(report.cache_read_input_tokens),
         cache_write_tokens |-> opt(report.cache_creation_input_tokens),
         cost_microdollars |-> compute_cost(RaceModel, report),
         created_at |-> task.t]

(* A recording that writes back the ledger its check had read, plus its own
   row *)
task_record_insert_WriteBack(i) ==
    /\ tasks[i].pc = "record_insert"
    /\ request_log' = Append(SubSeq(request_log, 1, tasks[i].rows_seen),
                             LogRow(tasks[i]))
    /\ tasks' = [tasks EXCEPT ![i].pc = "done"]
    /\ UNCHANGED <<now, ticks, client_keys, last, reset_keys>>

(* record_model_usage: the single INSERT into request_log *)
task_record_insert(i) ==
    /\ tasks[i].pc = "record_insert"
    /\ request_log' = Append(request_log, LogRow(tasks[i]))
    /\ tasks' = [tasks EXCEPT ![i].pc = "done"]
    /\ UNCHANGED <<now, ticks, client_keys, last, reset_keys>>

(* A store whose first key has limits, so that check_limits aggregates *)
InitRace ==
    /\ now = StartTime
    /\ ticks = 0
    /\ client_keys =
          [k \in KeyIds |->
              [NewKeyRow(SecretOf(k), StartTime)
                 EXCEPT !.five_hour_limit = Some(3), !.weekly_limit = Some(3),
                        !.total_limit = Some(3)]]
    /\ request_log = <<>>
    /\ last = NoOp
    /\ reset_keys = {}
    /\ key_allowed_models = {}
    /\ key_model_limits = {}
    /\ issued = KeyIds
    /\ req = IdleReq
    /\ served = 0
    /\ db = InitializedDb
    /\ boot = BootUp
    /\ mig_log = <<>>
    /\ xf = IdleXf
    /\ scan = NoScan
    /\ tasks = NoTasks
    /\ state_window_resets = DefaultSubscriptionState
    /\ fetched = None
    /\ verifier = None
    /\ auth_store = None
    /\ oauth_last = NoOAuthOp
    /\ stream = IdleStream

race_frame == <<auth_vars, ext_but_late, xf, scan>>

NextRace ==
    \/ \E d \in TickSteps : Tick(d) /\ UNCHANGED <<race_frame, tasks>>
    \/ \E i \in TaskIds : task_begin(i) /\ UNCHANGED race_frame
    \/ \E i \in TaskIds : task_maintenance_select(i) /\ UNCHANGED race_frame
    \/ \E i \in TaskIds : task_maintenance_update(i) /\ UNCHANGED race_frame
    \/ \E i \in TaskIds : task_check_aggregate(i) /\ UNCHANGED race_frame
    \/ \E i \in TaskIds, report \in Reports :
          task_forward(i, report) /\ UNCHANGED race_frame
    \/ \E i \in TaskIds : task_record_init(i) /\ UNCHANGED race_frame
    \/ \E i \in TaskIds : task_record_insert(i) /\ UNCHANGED race_frame
    \/ /\ RaceKey \notin reset_keys
       /\ reset_usage(RaceKey, "All")
       /\ UNCHANGED <<race_frame, tasks>>

SpecRace == InitRace /\ [][NextRace]_vars

----------------------------------------------------------------------------
DoneTasks == {i \in TaskIds : tasks[i].pc = "done"}

(* How often a row occurs in the ledger *)
Occurrences(rows, row) == Cardinality({n \in 1 .. Len(rows) : rows[n] = row})

(* The ledger as it was when task i aggregated it: the ledger only grows *)
LedgerSeenBy(i) == SubSeq(request_log, 1, tasks[i].rows_seen)

(* C27: for any interleaving of concurrent requests on the same key, every
   completed request's cost is in request_log exactly once (the ledger holds
   the rows of the completed requests and no others), and the usage a
   check_limits computes is, for each window, the sum of the costs recorded
   in the ledger at or after the window's count_from. *)
C27_NoLostUsage ==
    /\ Len(request_log) = Cardinality(DoneTasks)
    /\ \A i \in DoneTasks :
          Occurrences(request_log, LogRow(tasks[i]))
             = Cardinality({j \in DoneTasks :
                               LogRow(tasks[j]) = LogRow(tasks[i])})
    /\ \A i \in TaskIds : IsSome(tasks[i].usage) =>
          LET usage == Unwrap(tasks[i].usage)
              ws == Unwrap(tasks[i].ws)
          IN  /\ usage.five_hour = LedgerCost(LedgerSeenBy(i), RaceKey,
                                              ws.five_hour_count_from)
              /\ usage.weekly = LedgerCost(LedgerSeenBy(i), RaceKey,
                                           ws.weekly_count_from)
              /\ usage.total = LedgerCost(LedgerSeenBy(i), RaceKey,
                                          ws.total_count_from)

(* two requests that both passed check_limits before either was recorded,
   both recorded, with different costs *)
C27_Witness ==
    /\ DoneTasks = TaskIds
    /\ \A i \in TaskIds : tasks[i].rows_seen = 0
    /\ Len(request_log) = 2
    /\ request_log[1].cost_microdollars # request_log[2].cost_microdollars

(* a check_limits that counted the cost of a request completed before it *)
C27_WitnessNextCheck ==
    \E i \in TaskIds :
       /\ IsSome(tasks[i].usage)
       /\ tasks[i].rows_seen = 1
       /\ Unwrap(tasks[i].usage).total > 0

(* C28: for any interleaving of window maintenance with reset_usage on the
   same key, once reset_usage has set a window's count_from to time t (here
   a reset of all windows, which leaves t in total_count_from, a column the
   maintenance never writes), that count_from never afterwards holds a value
   earlier than t. *)
C28_ResetNotUndone ==
    RaceKey \in reset_keys =>
       \A w \in Windows :
          CountFrom(client_keys[RaceKey], w)
             >= client_keys[RaceKey].total_count_from

----------------------------------------------------------------------------
(* rate_limits.rs: set_allowed_models statement by statement, against a
   request's is_model_allowed *)

(* The lists an admin may send: none, one or two models *)
WhitelistInputs == { <<>>, <<"m1">>, <<"md">>, <<"m1", "md">> }

Range(seq) == {seq[n] : n \in DOMAIN seq}
WhitelistOf(allowed_models, key_id) ==
    {p[2] : p \in {q \in allowed_models : q[1] = key_id}}

(* set_allowed_models is called *)
set_allowed_models_begin(models) ==
    /\ tasks.admin.pc \in {"idle", "failed"}
    /\ tasks.check.pc \in {"idle", "done"}
    /\ tasks' = [tasks EXCEPT !.admin =
                    [pc |-> "delete", models |-> models, todo |-> models,
                     old |-> WhitelistOf(key_allowed_models, RaceKey)]]
    /\ UNCHANGED key_allowed_models

(* DELETE FROM key_allowed_models WHERE key_id = ? *)
set_allowed_models_delete ==
    /\ tasks.admin.pc = "delete"
    /\ key_allowed_models' = {p \in key_allowed_models : p[1] # RaceKey}
    /\ tasks' = [tasks EXCEPT !.admin.pc =
                    IF tasks.admin.todo = <<>> THEN "idle" ELSE "insert"]

(* INSERT INTO key_allowed_models, one model of the list *)
set_allowed_models_insert ==
    /\ tasks.admin.pc = "insert"
    /\ key_allowed_models' =
          key_allowed_models \cup {<<RaceKey, Head(tasks.admin.todo)>>}
    /\ tasks' = [tasks EXCEPT !.admin.todo = Tail(@),
                              !.admin.pc = IF Len(tasks.admin.todo) = 1
                                           THEN "idle" ELSE "insert"]

(* An INSERT fails: `?` returns the error, the rows stay as they are *)
set_allowed_models_insert_fails ==
    /\ tasks.admin.pc = "insert"
    /\ tasks' = [tasks EXCEPT !.admin.pc = "failed"]
    /\ UNCHANGED key_allowed_models

(* is_model_allowed: SELECT COUNT( * ) of the key's rows; none = allow all.
   The task notes the replacement that is under way, if one is *)
is_model_allowed_total(model) ==
    /\ tasks.check.pc \in {"idle", "done"}
    /\ LET total == Cardinality({p \in key_allowed_models : p[1] = RaceKey})
           replacing == tasks.admin.pc \in {"delete", "insert"}
       IN  tasks' = [tasks EXCEPT !.check =
              [pc |-> IF total = 0 THEN "done" ELSE "count",
               model |-> model,
               old |-> IF replacing THEN tasks.admin.old ELSE {},
               new |-> IF replacing THEN Range(tasks.admin.models) ELSE {},
               total |-> Some(total),
               allowed |-> IF total = 0 THEN Some(TRUE) ELSE None]]
    /\ UNCHANGED key_allowed_models

(* is_model_allowed: SELECT COUNT( * ) of the key's rows for the model *)
is_model_allowed_count ==
    /\ tasks.check.pc = "count"
    /\ LET count == Cardinality({p \in key_allowed_models :
                                    p = <<RaceKey, tasks.check.model>>})
       IN  tasks' = [tasks EXCEPT !.check.pc = "done",
                                  !.check.allowed = Some(count > 0)]
    /\ UNCHANGED key_allowed_models

whitelist_frame ==
    <<quota_vars, key_model_limits, issued, req, served, ext_but_late, xf, scan>>

NextWhitelist ==
    \/ \E models \in WhitelistInputs :
          set_allowed_models_begin(models) /\ UNCHANGED whitelist_frame
    \/ set_allowed_models_delete /\ UNCHANGED whitelist_frame
    \/ set_allowed_models_insert /\ UNCHANGED whitelist_frame
    \/ set_allowed_models_insert_fails /\ UNCHANGED whitelist_frame
    \/ \E model \in ModelIds :
          is_model_allowed_total(model) /\ UNCHANGED whitelist_frame
    \/ is_model_allowed_count /\ UNCHANGED whitelist_frame

SpecWhitelist == Init /\ [][NextWhitelist]_vars

(* C29: while set_allowed_models replaces a key's non-empty whitelist by
   another non-empty whitelist, no concurrent request for a model that is in
   neither list passes the whitelist check; and if set_allowed_models fails
   part-way, the key is not left with an empty (allow-all) whitelist. *)
C29_WhitelistReplacedAtomically ==
    /\ /\ tasks.check.pc = "done"
       /\ tasks.check.old # {}
       /\ tasks.check.new # {}
       /\ tasks.check.model \notin tasks.check.old \cup tasks.check.new
       => tasks.check.allowed = Some(FALSE)
    /\ /\ tasks.admin.pc = "failed"
       /\ tasks.admin.old # {}
       => WhitelistOf(key_allowed_models, RaceKey) # {}

----------------------------------------------------------------------------
(* auth/oauth.rs, auth/storage.rs: two refresh_if_needed calls, statement by
   statement *)

RefreshIds == {"r1", "r2"}

(* The credential the race starts from: already inside the refresh margin,
   or entering it with the first second that passes *)
ExpiringCredentials ==
    { OAuthCredential("at0", "rt0", StartTime + 1000),
      OAuthCredential("at0", "rt0", StartTime + RefreshMarginMs + 500) }

(* auth_store.get("anthropic"), the match on the credential, now, and the
   margin test: return at once or go on to the token endpoint *)
refresh_read(i) ==
    /\ tasks[i].pc = "idle"
    /\ tasks' = [tasks EXCEPT ![i] =
          IF auth_store = None
          THEN [@ EXCEPT !.pc = "done", !.t = now, !.res = "none"]
          ELSE LET auth == Unwrap(auth_store)
               IN  IF auth.type # "oauth"
                   THEN [@ EXCEPT !.pc = "done", !.t = now, !.res = "token"]
                   ELSE IF now + RefreshMarginMs < auth.expires
                   THEN [@ EXCEPT !.pc = "done", !.t = now, !.res = "token",
                                  !.expires_at = Some(auth.expires)]
                   ELSE [@ EXCEPT !.pc = "post", !.t = now,
                                  !.expires_at = Some(auth.expires)]]
    /\ UNCHANGED auth_store

(* The POST to the token endpoint and what it answers *)
refresh_post(i, response) ==
    /\ tasks[i].pc = "post"
    /\ tasks' = [tasks EXCEPT ![i].response = Some(response),
                              ![i].pc = CASE response.kind = "token" -> "update"
                                          [] response.kind = "invalid_grant" -> "remove"
                                          [] OTHER -> "done",
                              ![i].res = CASE response.kind = "token" -> ""
                                           [] response.kind = "invalid_grant" -> ""
                                           [] OTHER -> "error"]
    /\ UNCHANGED auth_store

(* update_tokens: one UPDATE of access_token, refresh_token and expires_at
   that leaves the refresh token as it was *)
refresh_update_tokens_KeepRefresh(i) ==
    /\ tasks[i].pc = "update"
    /\ LET token == Unwrap(tasks[i].response)
           new_expires == tasks[i].t + token.expires_in * 1000
           cred == OAuthCredential(token.access_token, token.refresh_token,
                                   new_expires)
       IN  /\ auth_store' =
                 IF IsSome(auth_store) /\ Unwrap(auth_store).type = "oauth"
                 THEN Some([cred EXCEPT !.refresh = Unwrap(auth_store).refresh])
                 ELSE auth_store
           /\ tasks' = [tasks EXCEPT ![i].pc = "done", ![i].res = "token",
                                     ![i].wrote = Some(cred)]

(* update_tokens: one UPDATE of access_token, refresh_token and expires_at
   WHERE provider = ? AND auth_type = 'oauth'; new_expires counts from the
   now read before the POST *)
refresh_update_tokens(i) ==
    /\ tasks[i].pc = "update"
    /\ LET token == Unwrap(tasks[i].response)
           new_expires == tasks[i].t + token.expires_in * 1000
           cred == OAuthCredential(token.access_token, token.refresh_token,
                                   new_expires)
       IN  /\ auth_store' =
                 IF IsSome(auth_store) /\ Unwrap(auth_store).type = "oauth"
                 THEN Some(cred)
                 ELSE auth_store
           /\ tasks' = [tasks EXCEPT ![i].pc = "done", ![i].res = "token",
                                     ![i].wrote = Some(cred)]

(* invalid_grant: auth_store.remove("anthropic"), Ok(None) *)
refresh_remove(i) ==
    /\ tasks[i].pc = "remove"
    /\ auth_store' = None
    /\ tasks' = [tasks EXCEPT ![i].pc = "done", ![i].res = "none"]

InitRefreshRace ==
    /\ now = StartTime
    /\ ticks = 0
    /\ client_keys = [k \in KeyIds |-> NewKeyRow(SecretOf(k), StartTime)]
    /\ request_log = <<>>
    /\ last = NoOp
    /\ reset_keys = {}
    /\ key_allowed_models = {}
    /\ key_model_limits = {}
    /\ issued = KeyIds
    /\ req = IdleReq
    /\ served = 0
    /\ state_window_resets = DefaultSubscriptionState
    /\ fetched = None
    /\ verifier = None
    /\ auth_store \in {Some(c) : c \in ExpiringCredentials}
    /\ oauth_last = NoOAuthOp
    /\ stream = IdleStream
    /\ db = InitializedDb
    /\ boot = BootUp
    /\ mig_log = <<>>
    /\ xf = IdleXf
    /\ scan = NoScan
    /\ tasks = NoTasks

refresh_frame ==
    <<quota_vars, auth_vars, sub_vars, verifier, oauth_last, stream_vars,
      mig_vars, xf, scan>>

NextRefreshRace ==
    \/ \E d \in OAuthTickSteps :
          Tick(d) /\ UNCHANGED <<auth_vars, ext_vars>>
    \/ \E i \in RefreshIds : refresh_read(i) /\ UNCHANGED refresh_frame
    \/ \E i \in RefreshIds : \E r \in TokenResponses :
          refresh_post(i, r) /\ UNCHANGED refresh_frame
    \/ \E i \in RefreshIds : refresh_update_tokens(i) /\ UNCHANGED refresh_frame
    \/ \E i \in RefreshIds : refresh_remove(i) /\ UNCHANGED refresh_frame

SpecRefreshRace == InitRefreshRace /\ [][NextRefreshRace]_vars

(* A call reads the credential while the other call has read it and has not
   written yet: it sees the expiry the other saw and goes on to the token
   endpoint as well *)
RacingRead(i, j) ==
    /\ tasks[i].pc = "idle"
    /\ tasks'[i].pc # "idle"
    /\ tasks[j].pc \in {"post", "update"}
    => /\ tasks'[i].pc = "post"
       /\ tasks'[i].expires_at = tasks[j].expires_at

(* Both calls are over, both saw the same expiry, both called update_tokens *)
BothRefreshed ==
    /\ \A i \in RefreshIds : tasks[i].pc = "done" /\ IsSome(tasks[i].wrote)
    /\ tasks.r1.expires_at = tasks.r2.expires_at

WonByOne ==
    BothRefreshed =>
       /\ IsSome(auth_store)
       /\ Unwrap(auth_store).type = "oauth"
       /\ Unwrap(auth_store) \in {Unwrap(tasks.r1.wrote), Unwrap(tasks.r2.wrote)}

(* C30: when two refresh_if_needed calls race on an expiring OAuth
   credential, both observe the old expiry and both call the upstream, and
   when both have finished the store still holds an OAuth credential whose
   tokens are those written by one of the two update_tokens calls. *)
C30_RefreshRaceOneWins ==
    /\ [][RacingRead("r1", "r2") /\ RacingRead("r2", "r1")]_vars
    /\ []WonByOne

(* Both calls raced and were given different tokens; one of the two is
   stored *)
C30_Witness ==
    /\ BothRefreshed
    /\ tasks.r1.wrote # tasks.r2.wrote
    /\ IsSome(auth_store)
    /\ Unwrap(auth_store) = Unwrap(tasks.r1.wrote)

----------------------------------------------------------------------------
(* rate_limits.rs: a key that has reached a window limit, and the time that
   passes afterwards *)

(* The limits the key is created with: one on each window, or on both *)
ExpiryLimits ==
    { [five_hour_limit |-> Some(1), weekly_limit |-> None, total_limit |-> None],
      [five_hour_limit |-> None, weekly_limit |-> Some(1), total_limit |-> None],
      [five_hour_limit |-> Some(1), weekly_limit |-> Some(1), total_limit |-> None] }

(* The clock advances by a millisecond, by five hours or by a week *)
ExpiryTickSteps == {1, five_hour_ms, one_week_ms}

(* The subscription state a handler is given: no reset times, or windows
   that end within their duration *)
ExpirySubStates(t) ==
    { NoSub,
      [five_hour_reset_at |-> Some(t + 1), seven_day_reset_at |-> Some(t + 1)],
      [five_hour_reset_at |-> Some(t + five_hour_ms),
       seven_day_reset_at |-> Some(t + one_week_ms)] }

WindowDuration(window) ==
    IF window = "five_hour" THEN five_hour_ms ELSE one_week_ms

(* What is kept of the first request rejected for a window limit: when it
   was, for which window, and the verdict of a request made one window
   duration later or more *)
NoteVerdict(rejected, t, res) ==
    IF rejected = None
    THEN IF res \in {"five_hour", "weekly"}
         THEN Some([at |-> t, window |-> res, later |-> None])
         ELSE None
    ELSE IF t >= Unwrap(rejected).at + WindowDuration(Unwrap(rejected).window)
         THEN Some([Unwrap(rejected) EXCEPT !.later = Some(res)])
         ELSE rejected

(* A request of the key reaches check_limits *)
expiry_check_limits(window_resets) ==
    /\ check_limits(RaceKey, window_resets)
    /\ tasks' = [tasks EXCEPT !.rejected = NoteVerdict(@, now, last'.res)]

(* A request of the key completes and its usage is recorded; none is once
   the key has been rejected *)
expiry_record_model_usage(window_resets) ==
    /\ tasks.rejected = None
    /\ record_model_usage(RaceKey, RaceModel, Report1, window_resets)
    /\ UNCHANGED tasks

InitExpiry ==
    /\ now = StartTime
    /\ ticks = 0
    /\ \E l \in ExpiryLimits :
          client_keys = [k \in KeyIds |->
              [NewKeyRow(SecretOf(k), StartTime)
                 EXCEPT !.five_hour_limit = l.five_hour_limit,
                        !.weekly_limit = l.weekly_limit]]
    /\ request_log = <<>>
    /\ last = NoOp
    /\ reset_keys = {}
    /\ key_allowed_models = {}
    /\ key_model_limits = {}
    /\ issued = KeyIds
    /\ req = IdleReq
    /\ served = 0
    /\ InitExt

expiry_frame == <<auth_vars, ext_but_late, xf, scan>>

NextExpiry ==
    \/ \E d \in ExpiryTickSteps : Tick(d) /\ UNCHANGED <<auth_vars, ext_vars>>
    \/ \E s \in ExpirySubStates(now) :
          expiry_check_limits(s) /\ UNCHANGED expiry_frame
    \/ \E s \in ExpirySubStates(now) :
          expiry_record_model_usage(s) /\ UNCHANGED expiry_frame

SpecExpiry == InitExpiry /\ [][NextExpiry]_vars

(* C31: every five-hour or weekly window that holds recorded usage expires
   without admin action: once a key has been rejected because that window's
   limit is reached and no further usage is recorded, a request made at
   least one window duration (5 h or 7 d) later is not rejected for that
   window, whether or not subscription reset times are available. *)
C31_WindowExpiresUnaided ==
    /\ IsSome(tasks.rejected)
    /\ IsSome(Unwrap(tasks.rejected).later)
    => Unwrap(Unwrap(tasks.rejected).later) # Unwrap(tasks.rejected).window

----------------------------------------------------------------------------
(* rate_limits.rs: per-key per-model limits and usage (key_model_limits and
   request_log) *)

AllWindows == {"five_hour", "weekly", "total"}

(* TokenBreakdown::default() *)
NoTokens == [input |-> 0, output |-> 0, cache_read |-> 0, cache_write |-> 0]

RECURSIVE TokenBreakdownFrom(_, _, _, _)
(* The four SUM(CASE WHEN created_at >= from THEN .. ELSE 0 END) columns of
   get_model_usage's query, for the group of one model *)
TokenBreakdownFrom(rows, key_id, model, from) ==
    IF rows = <<>> THEN NoTokens
    ELSE LET r == Head(rows)
             rest == TokenBreakdownFrom(Tail(rows), key_id, model, from)
         IN  IF r.key_id = key_id /\ r.model = model /\ r.created_at >= from
             THEN [input |-> rest.input + r.input_tokens,
                   output |-> rest.output + r.output_tokens,
                   cache_read |-> rest.cache_read + r.cache_read_tokens,
                   cache_write |-> rest.cache_write + r.cache_write_tokens]
             ELSE rest

(* get_model_usage(key_id) at time t: model -> ModelUsageEntry, for the
   models with a limits row or with rows in the scanned part of the ledger *)
get_model_usage(rows, model_limits, keys, key_id, t) ==
    IF key_id \notin DOMAIN keys THEN [m \in {} |-> NoTokens]
    ELSE LET row == keys[key_id]
             five_hour_expired ==
                 row.five_hour_reset_at > 0 /\ t >= row.five_hour_reset_at
             weekly_expired ==
                 row.weekly_reset_at > 0 /\ t >= row.weekly_reset_at
             effective_five_hour ==
                 IF five_hour_expired THEN t ELSE row.five_hour_count_from
             effective_weekly ==
                 IF weekly_expired THEN t ELSE row.weekly_count_from
             min_from == Min(Min(effective_five_hour, effective_weekly),
                             row.total_count_from)
             scanned == SelectSeq(rows, LAMBDA r :
                            r.key_id = key_id /\ r.created_at >= min_from)
             mine == {r \in model_limits : r.key_id = key_id}
             all_models == {r.model : r \in mine}
                           \cup {scanned[n].model : n \in DOMAIN scanned}
         IN  [m \in all_models |->
                [model |-> m,
                 five_hour |-> TokenBreakdownFrom(scanned, key_id, m,
                                                  effective_five_hour),
                 weekly |-> TokenBreakdownFrom(scanned, key_id, m,
                                               effective_weekly),
                 total |-> TokenBreakdownFrom(scanned, key_id, m,
                                              row.total_count_from),
                 five_hour_reset_at |->
                     IF five_hour_expired THEN 0 ELSE row.five_hour_reset_at,
                 weekly_reset_at |->
                     IF weekly_expired THEN 0 ELSE row.weekly_reset_at]]

(* The operation under observation, with what it was given and returned *)
Observe(entry) == tasks' = [tasks EXCEPT !.probe = Some(entry)]
Unobserved == tasks' = [tasks EXCEPT !.probe = None]

(* The cost check_model_limits counts against window w of a model: the
   model's rows from the later of the window's and the row's count_from *)
ModelWindowCost(model_limits, rows, keys, key_id, model, w) ==
    LET mine == {r \in model_limits : r.key_id = key_id /\ r.model = model}
        model_count_from ==
            IF mine = {} THEN 0 ELSE (CHOOSE r \in mine : TRUE).count_from
    IN  query_model_cost(rows, key_id, model,
                         Max(CountFrom(keys[key_id], w), model_count_from))

(* check_model_limits(key_id, model, window_resets): window maintenance,
   then the verdict on the row of (key, model) *)
check_model_limits(key_id, model, window_resets) ==
    /\ key_id \in DOMAIN client_keys
    /\ LET row == maybe_reset_expired_windows(client_keys[key_id], now,
                                              window_resets)
           verdict == ModelLimitVerdict(key_model_limits, request_log, key_id,
                                        model, WindowState(row))
       IN  /\ client_keys' = [client_keys EXCEPT ![key_id] = row]
           /\ Observe([op |-> "check_model_limits", key |-> key_id,
                       model |-> model, res |-> verdict])
    /\ UNCHANGED <<now, ticks, request_log, last, reset_keys, auth_vars>>

(* reset_model_usage(key_id, model, _reset_type): one UPDATE of count_from in
   key_model_limits *)
reset_model_usage(key_id, model, reset_type) ==
    /\ key_model_limits' =
          {IF r.key_id = key_id /\ r.model = model
           THEN [r EXCEPT !.count_from = now] ELSE r : r \in key_model_limits}
    /\ Observe([op |-> "reset_model_usage", key |-> key_id, model |-> model,
                kind |-> reset_type,
                model_cost |-> [w \in AllWindows |->
                    ModelWindowCost(key_model_limits, request_log, client_keys,
                                    key_id, model, w)],
                key_cost |-> aggregate_usage_costs(request_log, key_id,
                                 WindowState(client_keys[key_id]))])
    /\ UNCHANGED <<quota_vars, key_allowed_models, issued, req, served>>

(* The per-model limits an admin sets *)
ModelLimitChoices ==
    { [five_hour_limit |-> None, weekly_limit |-> None, total_limit |-> None],
      [five_hour_limit |-> Some(1), weekly_limit |-> Some(3), total_limit |-> None],
      [five_hour_limit |-> None, weekly_limit |-> Some(1), total_limit |-> Some(1)] }

(* The models requests are made for: one with limits, one without *)
LimitedModels == {"m1"}
UsedModels == {"m1", "md"}

(* The windows an admin asks to reset for a model *)
ModelResetKinds == {"FiveHour", "Total"}

model_frame == <<ext_but_late, xf, scan>>

NextModelLimits ==
    \/ \E d \in TickSteps :
          Tick(d) /\ Unobserved /\ UNCHANGED <<auth_vars, model_frame>>
    \/ \E m \in LimitedModels, l \in ModelLimitChoices :
          set_model_limits(RaceKey, m, l) /\ Unobserved /\ UNCHANGED model_frame
    \/ \E m \in UsedModels, s \in LimitSubStates(now) :
          /\ record_model_usage(RaceKey, m, Report1, s)
          /\ Unobserved /\ UNCHANGED <<auth_vars, model_frame>>
    \/ /\ RaceKey \notin reset_keys
       /\ reset_usage(RaceKey, "FiveHour") /\ Unobserved
       /\ UNCHANGED <<auth_vars, model_frame>>
    \/ \E m \in UsedModels, t \in ModelResetKinds :
          reset_model_usage(RaceKey, m, t) /\ UNCHANGED model_frame
    \/ \E m \in UsedModels :
          check_model_limits(RaceKey, m, NoSub) /\ UNCHANGED model_frame

SpecModelLimits == Init /\ [][NextModelLimits]_vars

Observed(op) == IsSome(tasks.probe) /\ Unwrap(tasks.probe).op = op

(* The model's rows in the ledger, read directly *)
ModelLedgerCost(rows, k, m, from) ==
    SumOfRows(rows, {i \in 1..Len(rows) :
        rows[i].key_id = k /\ rows[i].model = m /\ rows[i].created_at >= from})

(* C32: for a key with a key_model_limits row for the requested model, each
   per-model window sums only that model's request_log rows created at or
   after max(window count_from, the row's count_from), and the request is
   rejected if and only if a set per-model limit is reached; with no row for
   (key, model) the per-model check always passes. *)
C32_PerModelCheck ==
    Observed("check_model_limits") =>
       LET p == Unwrap(tasks.probe)
           mine == {r \in key_model_limits :
                       r.key_id = p.key /\ r.model = p.model}
       IN  IF mine = {} THEN p.res = "ok"
           ELSE LET r == CHOOSE x \in mine : TRUE
                    reached(w) ==
                       /\ IsSome(LimitOf(r, w))
                       /\ ModelLedgerCost(request_log, p.key, p.model,
                             Max(CountFrom(client_keys[p.key], w), r.count_from))
                            >= Unwrap(LimitOf(r, w))
                IN  /\ p.res # "ok" <=> \E w \in AllWindows : reached(w)
                    /\ p.res # "ok" => reached(p.res)

(* A request is rejected for a per-model limit while the key's ledger is
   counted from a later count_from of the model's row *)
C32_Witness ==
    /\ Observed("check_model_limits")
    /\ Unwrap(tasks.probe).res # "ok"
    /\ \E r \in key_model_limits :
          /\ r.model = Unwrap(tasks.probe).model
          /\ r.count_from > client_keys[RaceKey].five_hour_count_from


(* The tokens get_model_usage reports for window w of a model; a model
   without an entry has none *)
ReportedModelUsage(entries, m, w) ==
    IF m \notin DOMAIN entries THEN NoTokens
    ELSE CASE w = "five_hour" -> entries[m].five_hour
           [] w = "weekly" -> entries[m].weekly
           [] w = "total" -> entries[m].total

(* C39: reset_model_usage(key, model, kind) resets only the per-model usage
   of the window named by kind: the model's usage counted against its other
   per-model windows, and the key's global usage, are unchanged, and the
   usage reported by get_model_usage for the reset window is 0 afterwards. *)
C39_ResetModelUsageFrame ==
    Observed("reset_model_usage") =>
       LET p == Unwrap(tasks.probe)
       IN  /\ \A w \in AllWindows :
                 ~Covers(p.kind, w) =>
                    ModelWindowCost(key_model_limits, request_log, client_keys,
                                    p.key, p.model, w) = p.model_cost[w]
           /\ aggregate_usage_costs(request_log, p.key,
                                    WindowState(client_keys[p.key])) = p.key_cost
           /\ \A w \in AllWindows :
                 Covers(p.kind, w) =>
                    ReportedModelUsage(
                        get_model_usage(request_log, key_model_limits,
                                        client_keys, p.key, now),
                        p.model, w) = NoTokens

----------------------------------------------------------------------------
(* subscription.rs: the subscription-state cache against a usage endpoint
   that may fail *)

(* What a successful answer of the usage endpoint may carry at time t *)
UsageAnswers(t) ==
    { [five_hour_reset_at |-> r, seven_day_reset_at |-> w,
       five_hour_utilization |-> u, seven_day_utilization |-> None] :
         r \in {None, Some(t + 1)}, w \in {None, Some(t + 2)},
         u \in {None, Some(100)} }

(* fetch_window_resets: no token, no successful response, a body that does
   not parse, or a parsed SubscriptionUsageResponse *)
UsageOutcomes(t) ==
    { [kind |-> k, state |-> DefaultSubscriptionState] :
         k \in {"no_token", "http_error", "parse_error"} }
    \cup { [kind |-> "ok", state |-> s] : s \in UsageAnswers(t) }

(* fetch_window_resets: Default on any error *)
fetch_window_resets(outcome) ==
    IF outcome.kind = "ok" THEN outcome.state ELSE DefaultSubscriptionState

(* A handler calls get_or_refresh_window_resets *)
sub_get_or_refresh(outcome) ==
    LET g == get_or_refresh_window_resets(state_window_resets, now,
                                          fetch_window_resets(outcome))
    IN  /\ state_window_resets' = g.ret
        /\ fetched' = IF g.asked THEN Some(fetch_window_resets(outcome))
                      ELSE fetched
        /\ Observe([op |-> "get_or_refresh", cached |-> state_window_resets,
                    asked |-> g.asked, failed |-> outcome.kind # "ok",
                    ret |-> g.ret])

(* The extra-usage gate calls fetch_fresh_subscription_state *)
sub_fetch_fresh(outcome) ==
    LET f == fetch_fresh_subscription_state(state_window_resets,
                                            fetch_window_resets(outcome))
    IN  /\ state_window_resets' = f.cache
        /\ fetched' = Some(fetch_window_resets(outcome))
        /\ Observe([op |-> "fetch_fresh", cached |-> state_window_resets,
                    asked |-> TRUE, failed |-> outcome.kind # "ok",
                    ret |-> f.ret])

sub_frame == <<quota_vars, auth_vars, oauth_vars, stream_vars, mig_vars, xf, scan>>

NextSubscription ==
    \/ \E d \in TickSteps :
          Tick(d) /\ Unobserved
          /\ UNCHANGED <<auth_vars, ext_but_late, xf, scan>>
    \/ \E o \in UsageOutcomes(now) :
          sub_get_or_refresh(o) /\ UNCHANGED sub_frame
    \/ \E o \in UsageOutcomes(now) :
          sub_fetch_fresh(o) /\ UNCHANGED sub_frame

SpecSubscription == Init /\ [][NextSubscription]_vars

(* The call just made asked the usage endpoint and the fetch failed *)
FetchFailed(op) ==
    /\ Observed(op)
    /\ Unwrap(tasks.probe).asked
    /\ Unwrap(tasks.probe).failed

(* C33 as stated: when the upstream usage fetch fails, both
   get_or_refresh_window_resets and fetch_fresh_subscription_state return the
   cached subscription state (the default state only if nothing was ever
   cached) and leave the cache unchanged. *)
C33_BothReturnCached ==
    \A op \in {"get_or_refresh", "fetch_fresh"} :
       FetchFailed(op) =>
          /\ Unwrap(tasks.probe).ret = Unwrap(tasks.probe).cached
          /\ state_window_resets = Unwrap(tasks.probe).cached

(* C33, amended: when the upstream usage fetch fails, both calls leave the
   cache unchanged and return a state; get_or_refresh_window_resets returns
   the cached state, fetch_fresh_subscription_state returns the default
   state whatever is cached. *)
C33_FailedFetchIsSoft ==
    /\ FetchFailed("get_or_refresh") =>
          /\ Unwrap(tasks.probe).ret = Unwrap(tasks.probe).cached
          /\ state_window_resets = Unwrap(tasks.probe).cached
    /\ FetchFailed("fetch_fresh") =>
          /\ Unwrap(tasks.probe).ret = DefaultSubscriptionState
          /\ state_window_resets = Unwrap(tasks.probe).cached

(* A state is cached and the fetch of fetch_fresh_subscription_state fails:
   the default state is returned, the cached one is kept *)
C33_Witness ==
    /\ FetchFailed("fetch_fresh")
    /\ Unwrap(tasks.probe).cached # DefaultSubscriptionState
    /\ Unwrap(tasks.probe).ret = DefaultSubscriptionState
    /\ state_window_resets = Unwrap(tasks.probe).cached

----------------------------------------------------------------------------
(* routes/openai.rs, openai_compat.rs: the model name of a chat completion,
   as text *)

(* The longest model field, in pieces *)
MaxNameLen == 4

(* A model field is a string made of these pieces: the id of an enabled
   model, the two parentheses, a known effort word, any other text *)
NamePieces == {"m1", "(", ")", "high", "x"}
ModelTexts == UNION {[1..n -> NamePieces] : n \in 1..MaxNameLen}

(* str::find('(') and str::rfind('('): 0 when there is none *)
FindParen(text) ==
    LET at == {i \in DOMAIN text : text[i] = "("}
    IN  IF at = {} THEN 0 ELSE CHOOSE i \in at : \A j \in at : i <= j
RFindParen(text) ==
    LET at == {i \in DOMAIN text : text[i] = "("}
    IN  IF at = {} THEN 0 ELSE CHOOSE i \in at : \A j \in at : i >= j

(* chat_completions: the base model handed to authenticate_openai, the text
   before the first parenthesis *)
route_base_model(model_name) ==
    IF FindParen(model_name) = 0 THEN model_name
    ELSE SubSeq(model_name, 1, FindParen(model_name) - 1)

(* A parser that cuts at the first parenthesis whatever follows it *)
parse_model_suffix_text_AtFirst(model) ==
    [base_model |-> route_base_model(model), suffix_effort |-> None]

(* parse_model_suffix on the text: cut at the last parenthesis if the text
   ends with ')' and what stands between them is a known effort (or a
   number); else the whole text is the model *)
parse_model_suffix_text(model) ==
    LET open_paren == RFindParen(model)
    IN  IF open_paren = 0 \/ model[Len(model)] # ")"
        THEN [base_model |-> model, suffix_effort |-> None]
        ELSE LET suffix == SubSeq(model, open_paren + 1, Len(model) - 1)
             IN  IF suffix = <<"high">>
                 THEN [base_model |-> SubSeq(model, 1, open_paren - 1),
                       suffix_effort |-> Some("high")]
                 ELSE [base_model |-> model, suffix_effort |-> None]

(* models.is_valid on a name given as text *)
is_valid_text(model) == model = <<"m1">>

(* chat_completions: the name the quota engine is asked about, whether the
   request is admitted on it, the name put into the upstream request, and
   the name usage is recorded and priced under *)
chat_completions_names(model_name) ==
    LET base_model == route_base_model(model_name)
        model == parse_model_suffix_text(model_name).base_model
    IN  Observe([op |-> "chat_completions", model_name |-> model_name,
                 checked |-> base_model,
                 admitted |-> is_valid_text(base_model),
                 sent |-> model, logged |-> model,
                 priced |-> is_valid_text(model)])

NextModelName ==
    \/ \E text \in ModelTexts :
          chat_completions_names(text)
          /\ UNCHANGED <<quota_vars, auth_vars, ext_but_late, xf, scan>>

SpecModelName == Init /\ [][NextModelName]_vars

(* C34: for every value of the OpenAI model field, including names with one
   or more parenthesised suffixes and suffixes that are not valid effort
   hints, the model name checked by the quota engine (existence, whitelist,
   per-model limits) is the same model name that is sent upstream and
   written to request_log and priced. *)
C34_CheckedNameIsSentName ==
    Observed("chat_completions") /\ Unwrap(tasks.probe).admitted =>
       /\ Unwrap(tasks.probe).checked = Unwrap(tasks.probe).sent
       /\ Unwrap(tasks.probe).checked = Unwrap(tasks.probe).logged
       /\ Unwrap(tasks.probe).priced

----------------------------------------------------------------------------
(* transforms/streaming.rs: the translator over a stream of content blocks *)

(* How many events of the upstream stream are followed *)
MaxBlockEvents == 6

(* The type of the content block the upstream has started and not stopped,
   "" between blocks *)
RECURSIVE OpenBlock(_)
OpenBlock(events) ==
    IF events = <<>> THEN ""
    ELSE LET e == events[Len(events)]
         IN  CASE e.type = "content_block_start" -> e.block_type
               [] e.type = "content_block_stop" -> ""
               [] OTHER -> OpenBlock(SubSeq(events, 1, Len(events) - 1))

(* What the upstream sends next: between blocks the start of a text, a
   thinking or a tool_use block (or a ping); inside a block its deltas and
   its stop *)
BlockEvents(events) ==
    IF OpenBlock(events) = ""
    THEN { Event("content_block_start", t, <<>>, "", None) :
              t \in {"text", "thinking"} }
         \cup { Event("content_block_start", "tool_use", <<"mcp_", "tool">>,
                      "", None),
                Event("ping", "", <<>>, "", None) }
    ELSE { Event("content_block_delta", "", <<>>,
                 CASE OpenBlock(events) = "text" -> "text"
                   [] OpenBlock(events) = "thinking" -> "thinking"
                   [] OTHER -> "partial_json", None),
           Event("content_block_stop", "", <<>>, "", None) }

NextBlocks ==
    \/ chat_completions_prepare(StreamedChat, TRUE) /\ UNCHANGED xf_frame
    \/ \E event \in BlockEvents(xf.reply) :
          stream_event(event, MaxBlockEvents) /\ UNCHANGED xf_frame
    \/ stream_keep_alive /\ UNCHANGED xf_frame
    \/ stream_close /\ UNCHANGED xf_frame

SpecBlocks == Init /\ [][NextBlocks]_vars

(* How many tool_use blocks a run of events has started, and how many of
   them it has stopped *)
RECURSIVE ToolBlocksStarted(_)
ToolBlocksStarted(events) ==
    IF events = <<>> THEN 0
    ELSE (IF Head(events).type = "content_block_start"
             /\ Head(events).block_type = "tool_use" THEN 1 ELSE 0)
         + ToolBlocksStarted(Tail(events))
ToolBlocksStopped(events) ==
    ToolBlocksStarted(events) - (IF OpenBlock(events) = "tool_use" THEN 1 ELSE 0)

(* The index each tool-call chunk should carry: the start of the k-th
   tool_use block (from 0) and every argument delta inside it carry k *)
RECURSIVE ExpectedToolIndexes(_, _)
ExpectedToolIndexes(events, n) ==
    IF n = 0 THEN <<>>
    ELSE LET e == events[n]
             before == SubSeq(events, 1, n - 1)
         IN  ExpectedToolIndexes(events, n - 1)
             \o (CASE e.type = "content_block_start" /\ e.block_type = "tool_use" ->
                        << ToolBlocksStarted(before) >>
                   [] e.type = "content_block_delta" /\ e.delta = "partial_json" ->
                        << ToolBlocksStarted(before) - 1 >>
                   [] OTHER -> <<>>)

(* The indexes of the tool-call chunks sent to the client, in order *)
RECURSIVE SentToolIndexes(_)
SentToolIndexes(out) ==
    IF out = <<>> THEN <<>>
    ELSE (IF Head(out).kind = "tool_calls" THEN << Head(out).index >> ELSE <<>>)
         \o SentToolIndexes(Tail(out))

(* C35: in the Anthropic-to-OpenAI translator tool_call_index starts at 0
   and is incremented exactly when a content_block_stop arrives while a tool
   call is open, so the k-th tool_use block of a stream (counting from 0)
   and all of its argument deltas are emitted with index k, and text or
   thinking blocks never change the index. *)
C35_ToolCallIndex ==
    xf.op = "chat" =>
       /\ xf.sse.tool_call_index = ToolBlocksStopped(xf.reply)
       /\ SentToolIndexes(xf.out) = ExpectedToolIndexes(xf.reply, Len(xf.reply))

(* A text block, then two tool_use blocks: the second one's start and
   argument delta carry index 1 *)
C35_Witness ==
    /\ xf.op = "chat"
    /\ Len(xf.reply) = MaxBlockEvents
    /\ xf.reply[1].block_type = "text"
    /\ SentToolIndexes(xf.out) = <<0, 1, 1>>

----------------------------------------------------------------------------
(* transforms/streaming.rs: the upstream body as bytes cut into chunks *)

(* The bytes of an upstream body, in runs that a chunk boundary may
   separate: "D" is the text `data: `, "E" the text of an `event: ...`
   line, "{" and "}" open and close the JSON of an event, "t" is ASCII
   payload, "u" a usage object, "hi" and "lo" are the two bytes of one
   non-ASCII character, "nl" is the line feed *)
WireTexts ==
    { <<"E", "nl", "D", "{", "t", "}", "nl", "nl",
        "E", "nl", "D", "{", "u", "}", "nl", "nl">>,
      <<"E", "nl", "D", "{", "hi", "lo", "}", "nl", "nl",
        "D", "{", "u", "}", "nl", "nl">> }

Translators == {"openai", "native"}

(* std::str::from_utf8 on one chunk: every lead byte is followed by its
   continuation byte inside the chunk, and no continuation byte stands
   alone *)
from_utf8(chunk) ==
    \A i \in 1..Len(chunk) :
       /\ chunk[i] = "hi" => i < Len(chunk) /\ chunk[i + 1] = "lo"
       /\ chunk[i] = "lo" => i > 1 /\ chunk[i - 1] = "hi"

(* buffer.find('\n'): the place of the first line feed, 0 when none *)
FindNewline(buffer) ==
    IF \E i \in 1..Len(buffer) : buffer[i] = "nl"
    THEN CHOOSE i \in 1..Len(buffer) :
            buffer[i] = "nl" /\ \A j \in 1..(i - 1) : buffer[j] # "nl"
    ELSE 0

(* serde_json::from_str on the data of a line: the payload of the event when
   the data is one complete JSON object *)
parse_event(data) ==
    IF /\ Len(data) >= 2
       /\ data[1] = "{"
       /\ data[Len(data)] = "}"
       /\ \A i \in 2..(Len(data) - 1) : data[i] \in {"t", "u", "hi", "lo"}
    THEN Some(SubSeq(data, 2, Len(data) - 1))
    ELSE None

(* The usage objects an event carries *)
UsageObjects(payload) == Cardinality({ i \in 1..Len(payload) : payload[i] = "u" })

(* The frame the OpenAI translator yields for one event *)
ChunkFrame(payload) == <<"D", "{">> \o payload \o <<"}", "nl", "nl">>

(* stream_anthropic_to_openai_with_usage, the loop over the complete lines
   of the buffer *)
RECURSIVE openai_lines(_)
openai_lines(st) ==
    LET newline_pos == FindNewline(st.buffer)
    IN  IF newline_pos = 0 THEN st
        ELSE LET line == SubSeq(st.buffer, 1, newline_pos - 1)
                 rest == [st EXCEPT !.buffer =
                            SubSeq(st.buffer, newline_pos + 1, Len(st.buffer))]
             IN  IF line = <<>> \/ Head(line) # "D"
                 THEN openai_lines(rest)
                 ELSE LET event == parse_event(Tail(line))
                      IN  IF ~IsSome(event) THEN openai_lines(rest)
                          ELSE openai_lines(
                                 [rest EXCEPT
                                    !.usage = @ + UsageObjects(Unwrap(event)),
                                    !.out = @ \o ChunkFrame(Unwrap(event))])

(* stream_anthropic_to_openai_with_usage on one chunk of the body *)
openai_chunk(st, chunk) ==
    IF ~from_utf8(chunk) THEN st
    ELSE openai_lines([st EXCEPT !.buffer = @ \o chunk])

(* stream_strip_mcp_prefix_with_usage, the loop over the complete lines of
   the buffer: usage is read from the data lines, every line is passed on *)
RECURSIVE native_lines(_)
native_lines(st) ==
    LET newline_pos == FindNewline(st.buffer)
    IN  IF newline_pos = 0 THEN st
        ELSE LET line == SubSeq(st.buffer, 1, newline_pos)
                 event == IF Head(line) = "D"
                          THEN parse_event(SubSeq(line, 2, Len(line) - 1))
                          ELSE None
             IN  native_lines(
                    [st EXCEPT
                       !.buffer = SubSeq(st.buffer, newline_pos + 1,
                                         Len(st.buffer)),
                       !.usage = @ + (IF IsSome(event)
                                      THEN UsageObjects(Unwrap(event)) ELSE 0),
                       !.out = @ \o line])

(* stream_strip_mcp_prefix_with_usage on one chunk of the body *)
native_chunk(st, chunk) ==
    IF ~from_utf8(chunk) THEN [st EXCEPT !.out = @ \o chunk]
    ELSE native_lines([st EXCEPT !.buffer = @ \o chunk])

translate_chunk(st, chunk) ==
    IF st.translator = "openai" THEN openai_chunk(st, chunk)
    ELSE native_chunk(st, chunk)

(* After the last chunk: the native relay flushes what is left in its
   buffer, the OpenAI translator drops it *)
stream_finish(st) ==
    [st EXCEPT !.pc = "done",
               !.out = IF st.translator = "native" THEN @ \o st.buffer ELSE @,
               !.buffer = IF st.translator = "native" THEN <<>> ELSE @]

(* The upstream answers with a body *)
wire_open(translator, text) ==
    /\ tasks.wire.pc = "idle"
    /\ tasks' = [tasks EXCEPT !.wire =
                   [IdleWire EXCEPT !.pc = "open", !.translator = translator,
                                    !.text = text]]

(* body.next() yields the next n bytes *)
wire_chunk(n) ==
    LET st == tasks.wire
    IN  /\ st.pc = "open"
        /\ st.pos + n <= Len(st.text)
        /\ tasks' = [tasks EXCEPT !.wire =
                       translate_chunk([st EXCEPT !.pos = @ + n],
                                       SubSeq(st.text, st.pos + 1, st.pos + n))]

(* keep_alive.tick() while no chunk is ready *)
wire_keep_alive ==
    /\ tasks.wire.pc = "open"
    /\ tasks.wire.keep_alives < MaxKeepAlives
    /\ tasks' = [tasks EXCEPT !.wire.keep_alives = @ + 1,
                              !.wire.out = @ \o <<"ka">>]

(* body.next() yields None *)
wire_end ==
    /\ tasks.wire.pc = "open"
    /\ tasks.wire.pos = Len(tasks.wire.text)
    /\ tasks' = [tasks EXCEPT !.wire = stream_finish(@)]

wire_frame == <<quota_vars, auth_vars, ext_but_late, xf, scan>>

NextWire ==
    \/ \E translator \in Translators, text \in WireTexts :
          wire_open(translator, text) /\ UNCHANGED wire_frame
    \/ \E n \in 1..Len(tasks.wire.text) : wire_chunk(n) /\ UNCHANGED wire_frame
    \/ wire_keep_alive /\ UNCHANGED wire_frame
    \/ wire_end /\ UNCHANGED wire_frame

SpecWire == Init /\ [][NextWire]_vars

(* What was sent to the client, keep-alive comments left out *)
WithoutKeepAlives(out) == SelectSeq(out, LAMBDA b : b # "ka")

(* The translator run on the whole body as one chunk *)
WholeBody(st) ==
    stream_finish(translate_chunk([IdleWire EXCEPT !.pc = "open",
                                     !.translator = st.translator,
                                     !.text = st.text,
                                     !.pos = Len(st.text)], st.text))

(* C36: what each SSE translator emits (ignoring keep-alives) and the usage
   it records depend only on the concatenation of the upstream chunks, not
   on where the chunk boundaries fall: no upstream line or event is dropped,
   duplicated or reordered, and the native passthrough relays non-data lines
   unchanged. *)
C36_ChunkBoundariesDoNotMatter ==
    tasks.wire.pc = "done" =>
       /\ WithoutKeepAlives(tasks.wire.out) = WholeBody(tasks.wire).out
       /\ tasks.wire.usage = WholeBody(tasks.wire).usage

(* C37: a keep-alive comment is emitted only when no upstream data chunk is
   ready and only between complete SSE events: for any chunking and timing
   of the upstream, neither translator emits it inside a data: line or
   between the lines of one event already partly sent to the client. *)
C37_KeepAliveBetweenEvents ==
    \A i \in 1..Len(tasks.wire.out) :
       tasks.wire.out[i] = "ka" =>
          \/ i = 1
          \/ i > 2 /\ tasks.wire.out[i - 1] = "nl" /\ tasks.wire.out[i - 2] = "nl"

----------------------------------------------------------------------------
(* db.rs: a start-up that fails part-way through run_migrations *)

(* set_schema_version, first statement: DELETE FROM schema_version *)
delete_schema_version(d) == [d EXCEPT !.schema_version = <<>>]

(* set_schema_version, second statement: INSERT INTO schema_version *)
insert_schema_version(d, version) ==
    [d EXCEPT !.schema_version = Append(@, version)]

(* The loop of run_migrations after a migration: set_schema_version has run
   its DELETE *)
set_schema_version_delete ==
    /\ boot.pc = "set_version"
    /\ db' = delete_schema_version(db)
    /\ boot' = [boot EXCEPT !.pc = "insert_version"]
    /\ UNCHANGED mig_log

(* ... and its INSERT; current = migration.version *)
set_schema_version_insert ==
    /\ boot.pc = "insert_version"
    /\ db' = insert_schema_version(db, MIGRATIONS[boot.i])
    /\ boot' = [boot EXCEPT !.pc = "migrating",
                            !.current = MIGRATIONS[boot.i], !.i = @ + 1]
    /\ mig_log' = Append(mig_log, <<"set", MIGRATIONS[boot.i]>>)

(* A statement returns an error, or the process is stopped, between two
   statements of run_migrations *)
startup_fails ==
    /\ boot.pc \in {"migrating", "set_version", "insert_version"}
    /\ boot' = [boot EXCEPT !.pc = "failed"]
    /\ UNCHANGED <<db, mig_log>>

NextStartupFailure ==
    \/ init_db_begin /\ UNCHANGED <<quota_vars, auth_vars, ext_but_mig>>
    \/ run_migrations_skip /\ UNCHANGED <<quota_vars, auth_vars, ext_but_mig>>
    \/ run_migrations_migrate /\ UNCHANGED <<quota_vars, auth_vars, ext_but_mig>>
    \/ set_schema_version_delete
          /\ UNCHANGED <<quota_vars, auth_vars, ext_but_mig>>
    \/ set_schema_version_insert
          /\ UNCHANGED <<quota_vars, auth_vars, ext_but_mig>>
    \/ startup_fails /\ UNCHANGED <<quota_vars, auth_vars, ext_but_mig>>
    \/ init_db_done /\ UNCHANGED <<quota_vars, auth_vars, ext_but_mig>>
    \/ shutdown /\ UNCHANGED <<quota_vars, auth_vars, ext_but_mig>>

SpecStartupFailure == InitMigrations /\ [][NextStartupFailure]_vars

(* The version the log says was recorded last: what the start-up read, what
   it adopted, or the version written after the last migration that ran to
   its end *)
RECURSIVE LastRecorded(_)
LastRecorded(log) ==
    IF log = <<>> THEN 0
    ELSE IF log[Len(log)][1] \in {"start", "adopt", "set"}
    THEN log[Len(log)][2]
    ELSE LastRecorded(SubSeq(log, 1, Len(log) - 1))

(* C38: if a start-up fails at any point of the migration ladder, inside a
   migration or while writing schema_version, the recorded version still
   names the last fully applied migration, so the next start-up re-runs no
   migration that had already completed. *)
C38_FailedStartupKeepsVersion ==
    /\ boot.pc = "failed" => get_schema_version(db) = LastRecorded(mig_log)
    /\ \A i, j \in 1..Len(mig_log) :
          i < j /\ mig_log[i][1] = "set" /\ mig_log[j][1] = "migrate"
             => mig_log[j][2] # mig_log[i][2]

----------------------------------------------------------------------------
(* transforms/openai_compat.rs: max_tokens against the thinking budget *)

(* Chat requests over the effort words, decimal suffixes and client
   max_tokens values around the budgets and the ceilings *)
BudgetRequests ==
    { [model |-> Some(mo), max_tokens |-> mt, reasoning_effort |-> re,
       tools |-> None, messages |-> << OpenAIMessage("user", <<>>) >>] :
         mo \in { ModelString("claude-sonnet-4-5", su) :
                     su \in { None, Some("low"), Some("high"), Some("xhigh"),
                              Some("max"), Some("auto"), Some("bogus"),
                              Some("0"), Some("63000"), Some("63500"),
                              Some("64000"), Some("100000") } }
                \cup { ModelString("claude-opus-4-6", su) :
                          su \in { Some("max"), Some("100000") } },
         mt \in { None, Some(1000), Some(40000), Some(64000), Some(200000) },
         re \in { None, Some("medium"), Some("100000") } }

NextBudget ==
    \/ \E oreq \in BudgetRequests, cloak \in BOOLEAN :
          chat_completions_prepare(oreq, cloak) /\ UNCHANGED xf_frame
    \/ respond_buffered(<<>>) /\ UNCHANGED xf_frame
    \/ handler_return /\ UNCHANGED xf_frame

SpecBudget == Init /\ [][NextBudget]_vars

(* C40: whenever the OpenAI adapter emits manual thinking with
   budget_tokens = B, for any effort word or integer suffix and any client
   max_tokens, the emitted max_tokens is strictly greater than B and does
   not exceed the model's output ceiling. *)
C40_MaxTokensAboveBudget ==
    xf.op = "chat" /\ IsSome(xf.input) =>
       LET emitted == transform_openai_request(Unwrap(xf.input))
       IN  /\ IsSome(emitted.thinking)
           /\ IsSome(Unwrap(emitted.thinking).budget_tokens)
           => /\ emitted.max_tokens > Unwrap(Unwrap(emitted.thinking).budget_tokens)
              /\ emitted.max_tokens <=
                    (IF is_opus_4_6(emitted.model) THEN OPUS_4_6_MAX_OUTPUT
                                                   ELSE DEFAULT_MAX_OUTPUT)

====
